---- MODULE Spec2Model ----
(***************************************************************************)
(* A model of hacklet-rs: the binrw frame codec of messages.rs, the        *)
(* checksum stream it wraps its reader and writer in, the blocking serial  *)
(* receive loop of serial_connection.rs and the session operations of      *)
(* dongle.rs.                                                              *)
(*                                                                         *)
(* Representation.  A byte is a number in 0..255.  An unsigned integer of  *)
(* w bytes (u8, u16, u32, u64) is the tuple of its w base-256 digits, most *)
(* significant first, so 0x0a1c is <<10, 28>>: TLC's integers are 32 bits  *)
(* wide and cannot hold a u32 or a u64.  A byte array [u8; n] is the tuple *)
(* of its bytes in order and a Vec<u16> a tuple of 2-digit tuples.         *)
(***************************************************************************)
EXTENDS Integers, Sequences, FiniteSets, TLC

VARIABLES
    build,      \* "debug": integer overflow panics; "release": it wraps
    cstep,      \* codec harness: position of the test harness
    cmsg,       \* codec harness: the message under test
    cframe,     \* codec harness: the bytes under test
    cenc,       \* codec harness: result of create_message_buf
    cdec,       \* codec harness: result of read_message_from_buf
    cstream,    \* codec harness: a MessageChecksum read from directly: its
                \*   fields, the bytes read so far and the read calls made
    pc,         \* session: position in the running operation
    op,         \* session: the operation called and its arguments
    wire,       \* transport: bytes the device has sent, not yet arrived
    rxQueue,    \* transport: bytes arrived in the driver's receive queue
    owed,       \* transport: frames the device still owes in reply
    unsolicited,\* transport: frames the device has sent unasked
    bcastSent,  \* transport: the device has sent a frame with command 0xa013
    log,        \* session: the calls made so far, in order: transmit(frame),
                \*   receive(n), read_message_from_buf::<type> and its outcome
    rx,         \* receive(): its locals (expected_bytes, bytes, rx_bytes)
    locals,     \* session: locals of the running operation
    now,        \* clock: seconds on the monotonic clock
    result,     \* session: what the operation returned
    transport,  \* transport: the FTDI handle: "none", "open" or "closed"
    closeRet,   \* transport: what each connection.close() returned, in order
    dongle      \* session: the Dongle value: "none", "held" or "dropped"

codecVars == <<cstep, cmsg, cframe, cenc, cdec, cstream>>
sessionVars == <<pc, op, wire, rxQueue, owed, unsolicited, bcastSent, log,
                 rx, locals, now, result, transport, closeRet, dongle>>
vars == <<build, cstep, cmsg, cframe, cenc, cdec, cstream, pc, op, wire, rxQueue,
          owed, unsolicited, bcastSent, log, rx, locals, now, result,
          transport, closeRet, dongle>>

----------------------------------------------------------------------------
(* Bytes *)

Byte == 0..255

RECURSIVE Xor(_, _)
\* a ^ b on u8
Xor(a, b) ==
    IF a = 0 THEN b
    ELSE IF b = 0 THEN a
    ELSE ((a + b) % 2) + 2 * Xor(a \div 2, b \div 2)

Reverse(s) == [i \in 1..Len(s) |-> s[Len(s) + 1 - i]]

\* The bytes of an integer (digit tuple) in the given byte order.
ToWire(value, endian) == IF endian = "little" THEN Reverse(value) ELSE value

\* The integer (digit tuple) held by wire bytes in the given byte order.
FromWire(bytes, endian) == IF endian = "little" THEN Reverse(bytes) ELSE bytes

Min(a, b) == IF a < b THEN a ELSE b

\* The concatenation of a tuple of w-byte tuples.
Flatten(ss, w) == [i \in 1..(w * Len(ss)) |-> ss[((i - 1) \div w) + 1][((i - 1) % w) + 1]]

\* XOR of the bytes s[lo..hi], by position (halving, to keep the
\* evaluation shallow on long frames).
RECURSIVE XorRange(_, _, _)
XorRange(s, lo, hi) ==
    IF lo > hi THEN 0
    ELSE IF lo = hi THEN s[lo]
    ELSE LET mid == (lo + hi) \div 2
         IN  Xor(XorRange(s, lo, mid), XorRange(s, mid + 1, hi))

----------------------------------------------------------------------------
(* MessageChecksum: messages.rs 35-90 *)

\* MessageChecksum::new
NewChecksum == [previous_checksum |-> 0, checksum |-> 0]

\* A variant of impl Read without the lag: the checksum takes in the byte
\* just read.
ReadByteNoLag(s, byte) ==
    [previous_checksum |-> Xor(s.previous_checksum, byte),
     checksum |-> Xor(s.previous_checksum, byte)]

\* One byte through impl Read (the body of the for loop).
ReadByte(s, byte) ==
    [previous_checksum |-> Xor(s.previous_checksum, byte),
     checksum |-> s.previous_checksum]

\* A variant of impl Write that keeps the lag of impl Read: the checksum
\* written would leave out the last byte before it.
WriteByteLagging(s, byte) ==
    [previous_checksum |-> Xor(s.previous_checksum, byte),
     checksum |-> s.previous_checksum]

\* One byte through impl Write (the body of the for loop).
WriteByte(s, byte) ==
    [previous_checksum |-> s.previous_checksum,
     checksum |-> Xor(s.checksum, byte)]

RECURSIVE ChecksumRead(_, _)
\* impl Read for MessageChecksum: the stream state after bytes were read.
\* (The bytes are taken in order.  The run is halved, and the state after
\* the first half is evaluated before the second half is entered, only to
\* keep TLC's evaluation shallow on long frames.)
ChecksumRead(s, bytes) ==
    IF bytes = <<>> THEN s
    ELSE IF Len(bytes) = 1 THEN ReadByte(s, bytes[1])
    ELSE LET mid == Len(bytes) \div 2
             first == ChecksumRead(s, SubSeq(bytes, 1, mid))
         IN  IF first.checksum \in Byte
             THEN ChecksumRead(first, SubSeq(bytes, mid + 1, Len(bytes)))
             ELSE first

RECURSIVE ChecksumWrite(_, _)
\* impl Write for MessageChecksum: the stream state after bytes were written.
ChecksumWrite(s, bytes) ==
    IF bytes = <<>> THEN s
    ELSE IF Len(bytes) = 1 THEN WriteByte(s, bytes[1])
    ELSE LET mid == Len(bytes) \div 2
             first == ChecksumWrite(s, SubSeq(bytes, 1, mid))
         IN  IF first.checksum \in Byte
             THEN ChecksumWrite(first, SubSeq(bytes, mid + 1, Len(bytes)))
             ELSE first

----------------------------------------------------------------------------
(* The message catalog: messages.rs 92-369.  A struct is its fields in     *)
(* declared order and its br(assert(..)) list in declared order.           *)

Magic == 2              \* magic = 0x02u8

\* A public field of w bytes, big-endian (the struct's brw(big)).
Pub(name, w) ==
    [name |-> name, kind |-> "pub", width |-> w, value |-> <<>>,
     rd |-> "big", wr |-> "big"]

\* A public integer field with its own byte order on read and on write.
PubEndian(name, w, rd, wr) ==
    [name |-> name, kind |-> "pub", width |-> w, value |-> <<>>,
     rd |-> rd, wr |-> wr]

\* bw(calc(constant)): written from the constant, asserted equal on read.
Calc(name, value) ==
    [name |-> name, kind |-> "calc", width |-> Len(value), value |-> value,
     rd |-> "big", wr |-> "big"]

\* bw(calc(14+2*sample_count)) payload_length: u8
CalcLength ==
    [name |-> "payload_length", kind |-> "length", width |-> 1, value |-> <<>>,
     rd |-> "big", wr |-> "big"]

\* bw(calc(s.checksum)) checksum: u8
CalcChecksum ==
    [name |-> "checksum", kind |-> "checksum", width |-> 1, value |-> <<>>,
     rd |-> "big", wr |-> "big"]

\* samples: Vec<u16>, br(little, args { count: sample_count })
Samples(rd, wr) ==
    [name |-> "samples", kind |-> "samples", width |-> 2, value |-> <<>>,
     rd |-> rd, wr |-> wr]

BootResponse ==
    [name |-> "BootResponse",
     fields |-> << Calc("command", <<64, 132>>),          \* 0x4084
                   Calc("payload_length", <<22>>),        \* 0x16
                   Pub("data", 12), Pub("device_id", 8), Pub("data2", 2),
                   CalcChecksum >>,
     asserts |-> << "command", "payload_length", "checksum" >>]

BootConfirmResponse ==
    [name |-> "BootConfirmResponse",
     fields |-> << Calc("command", <<64, 128>>),          \* 0x4080
                   Calc("payload_length", <<1>>),
                   Calc("data", <<16>>),                  \* 0x10
                   CalcChecksum >>,
     asserts |-> << "command", "payload_length", "data", "checksum" >>]

BroadcastResponse ==
    [name |-> "BroadcastResponse",
     fields |-> << Calc("command", <<160, 19>>),          \* 0xa013
                   Calc("payload_length", <<11>>),        \* 0x0b
                   Pub("network_id", 2), Pub("device_id", 8), Pub("data", 1),
                   CalcChecksum >>,
     asserts |-> << "command", "payload_length", "checksum" >>]

LockResponse ==
    [name |-> "LockResponse",
     fields |-> << Calc("command", <<160, 249>>),         \* 0xa0f9
                   Calc("payload_length", <<1>>),
                   Calc("data", <<0>>),
                   CalcChecksum >>,
     asserts |-> << "command", "payload_length", "data", "checksum" >>]

UpdateTimeAckResponse ==
    [name |-> "UpdateTimeAckResponse",
     fields |-> << Calc("command", <<64, 34>>),           \* 0x4022
                   Calc("payload_length", <<1>>),
                   Calc("data", <<0>>),
                   CalcChecksum >>,
     asserts |-> << "command", "payload_length", "data", "checksum" >>]

UpdateTimeResponse ==
    [name |-> "UpdateTimeResponse",
     fields |-> << Calc("command", <<64, 162>>),          \* 0x40a2
                   Calc("payload_length", <<3>>),
                   Pub("network_id", 2),
                   Calc("data", <<0>>),
                   CalcChecksum >>,
     asserts |-> << "command", "payload_length", "data", "checksum" >>]

HandshakeResponse ==
    [name |-> "HandshakeResponse",
     fields |-> << Calc("command", <<64, 3>>),            \* 0x4003
                   Calc("payload_length", <<1>>),
                   Calc("data", <<0>>),
                   CalcChecksum >>,
     asserts |-> << "command", "payload_length", "data", "checksum" >>]

AckResponse ==
    [name |-> "AckResponse",
     fields |-> << Calc("command", <<64, 36>>),           \* 0x4024
                   Calc("payload_length", <<1>>),
                   Calc("data", <<0>>),
                   CalcChecksum >>,
     asserts |-> << "command", "payload_length", "data", "checksum" >>]

SamplesResponse ==
    [name |-> "SamplesResponse",
     fields |-> << Calc("command", <<64, 164>>),          \* 0x40a4
                   CalcLength,
                   Pub("network_id", 2), Pub("channel_id", 2), Pub("data", 2),
                   PubEndian("time", 4, "little", "little"),   \* brw(little)
                   Pub("sample_count", 1),
                   Pub("stored_sample_count", 3),
                   Samples("little", "big"),                   \* br(little)
                   CalcChecksum >>,
     asserts |-> << "command", "payload_length", "checksum" >>]

ScheduleResponse ==
    [name |-> "ScheduleResponse",
     fields |-> << Calc("command", <<64, 35>>),           \* 0x4023
                   Calc("payload_length", <<1>>),
                   Calc("data", <<0>>),
                   CalcChecksum >>,
     asserts |-> << "command", "payload_length", "data", "checksum" >>]

BootRequest ==
    [name |-> "BootRequest",
     fields |-> << Calc("command", <<64, 4>>),            \* 0x4004
                   Calc("payload_length", <<0>>),
                   CalcChecksum >>,
     asserts |-> << "command", "payload_length", "checksum" >>]

BootConfirmRequest ==
    [name |-> "BootConfirmRequest",
     fields |-> << Calc("command", <<64, 0>>),            \* 0x4000
                   Calc("payload_length", <<0>>),
                   CalcChecksum >>,
     asserts |-> << "command", "payload_length", "checksum" >>]

UnlockRequest ==
    [name |-> "UnlockRequest",
     fields |-> << Calc("command", <<162, 54>>),          \* 0xa236
                   Calc("payload_length", <<4>>),
                   Calc("data", <<252, 255, 144, 1>>),    \* 0xfcff9001
                   CalcChecksum >>,
     asserts |-> << "command", "payload_length", "data", "checksum" >>]

LockRequest ==
    [name |-> "LockRequest",
     fields |-> << Calc("command", <<162, 54>>),          \* 0xa236
                   Calc("payload_length", <<4>>),
                   Calc("data", <<252, 255, 0, 1>>),      \* 0xfcff0001
                   CalcChecksum >>,
     asserts |-> << "command", "payload_length", "data", "checksum" >>]

UpdateTimeRequest ==
    [name |-> "UpdateTimeRequest",
     fields |-> << Calc("command", <<64, 34>>),           \* 0x4022
                   Calc("payload_length", <<6>>),
                   Pub("network_id", 2),
                   PubEndian("time", 4, "big", "little"),      \* bw(little)
                   CalcChecksum >>,
     asserts |-> << "command", "payload_length", "checksum" >>]

HandshakeRequest ==
    [name |-> "HandshakeRequest",
     fields |-> << Calc("command", <<64, 3>>),            \* 0x4003
                   Calc("payload_length", <<4>>),
                   Pub("network_id", 2),
                   Calc("data", <<5, 0>>),                \* 0x0500
                   CalcChecksum >>,
     asserts |-> << "command", "payload_length", "data", "checksum" >>]

SamplesRequest ==
    [name |-> "SamplesRequest",
     fields |-> << Calc("command", <<64, 36>>),           \* 0x4024
                   Calc("payload_length", <<6>>),
                   Pub("network_id", 2), Pub("channel_id", 2),
                   Calc("data", <<10, 0>>),               \* 0x0a00
                   CalcChecksum >>,
     asserts |-> << "command", "payload_length", "data", "checksum" >>]

ScheduleRequest ==
    [name |-> "ScheduleRequest",
     fields |-> << Calc("command", <<64, 35>>),           \* 0x4023
                   Calc("payload_length", <<59>>),        \* 0x3b
                   Pub("network_id", 2), Pub("channel_id", 1),
                   Pub("schedule", 56),
                   CalcChecksum >>,
     asserts |-> << "command", "payload_length", "checksum" >>]

Catalog ==
    { BootResponse, BootConfirmResponse, BroadcastResponse, LockResponse,
      UpdateTimeAckResponse, UpdateTimeResponse, HandshakeResponse,
      AckResponse, SamplesResponse, ScheduleResponse, BootRequest,
      BootConfirmRequest, UnlockRequest, LockRequest, UpdateTimeRequest,
      HandshakeRequest, SamplesRequest, ScheduleRequest }

TypeNames == { T.name : T \in Catalog }

StructOf(name) == CHOOSE T \in Catalog : T.name = name

\* The names of a struct's public fields.
PubNames(T) ==
    { T.fields[i].name : i \in { j \in 1..Len(T.fields) : T.fields[j].kind \in {"pub", "samples"} } }

----------------------------------------------------------------------------
(* u8 arithmetic of the length code *)

\* 14+2*sample_count on u8 (messages.rs 219 and 224): with overflow checks
\* (a debug build) an overflow of the product or of the sum panics;
\* without them (a release build) both wrap modulo 256.
LengthCode(b, sample_count) ==
    LET twice == 2 * sample_count
        sum == 14 + (twice % 256)
    IN  [panic |-> (b = "debug" /\ (twice > 255 \/ sum > 255)),
         value |-> sum % 256]

----------------------------------------------------------------------------
(* Encode: the derived BinWrite of a struct, under create_message_buf *)

\* The bytes one field puts on the wire.  m is the message (its public
\* fields by name), s the state of the checksum stream before the field.
FieldBytes(b, f, m, s) ==
    CASE f.kind = "pub" -> ToWire(m[f.name], f.wr)
      [] f.kind = "calc" -> ToWire(f.value, f.wr)
      [] f.kind = "length" -> << LengthCode(b, m["sample_count"][1]).value >>
      [] f.kind = "checksum" -> << s.checksum >>
      [] f.kind = "samples" ->
            Flatten([j \in 1..Len(m[f.name]) |-> ToWire(m[f.name][j], f.wr)], f.width)

RECURSIVE WriteFields(_, _, _, _, _, _)
\* Fields i.. of T written in declared order through the checksum stream.
WriteFields(b, T, m, i, out, s) ==
    IF i > Len(T.fields) THEN [status |-> "Ok", bytes |-> out]
    ELSE LET f == T.fields[i]
         IN  IF f.kind = "length" /\ LengthCode(b, m["sample_count"][1]).panic
             THEN [status |-> "Panic", bytes |-> <<>>]
             ELSE LET bytes == FieldBytes(b, f, m, s)
                  IN  WriteFields(b, T, m, i + 1, out \o bytes, ChecksumWrite(s, bytes))

\* create_message_buf: the magic goes to the cursor itself, the fields go
\* through MessageChecksum::new(cursor).
Encode(b, T, m) == WriteFields(b, T, m, 1, <<Magic>>, NewChecksum)

----------------------------------------------------------------------------
(* Decode: the derived BinRead of a struct, under read_message_from_buf *)

\* The number of bytes field f takes, given the fields read before it.
FieldSize(f, acc) ==
    IF f.kind = "samples" THEN f.width * acc["sample_count"][1] ELSE f.width

\* The value of field f read from its wire bytes.
FieldValue(f, bytes) ==
    IF f.kind = "samples"
    THEN [j \in 1..(Len(bytes) \div 2) |-> FromWire(SubSeq(bytes, 2 * j - 1, 2 * j), f.rd)]
    ELSE FromWire(bytes, f.rd)

RECURSIVE ReadFields(_, _, _, _, _, _)
\* Fields i.. of T read in declared order from buf[pos..] through the
\* checksum stream; a field that runs past the end of buf is an I/O error.
ReadFields(T, buf, i, pos, acc, s) ==
    IF i > Len(T.fields) THEN [status |-> "Ok", acc |-> acc, s |-> s]
    ELSE LET f == T.fields[i]
             n == FieldSize(f, acc)
         IN  IF pos + n - 1 > Len(buf)
             THEN [status |-> "Io", acc |-> acc, s |-> s]
             ELSE LET bytes == SubSeq(buf, pos, pos + n - 1)
                  IN  ReadFields(T, buf, i + 1, pos + n,
                                 acc @@ (f.name :> FieldValue(f, bytes)),
                                 ChecksumRead(s, bytes))

\* The field of T called name.
FieldNamed(T, name) ==
    T.fields[CHOOSE i \in 1..Len(T.fields) : T.fields[i].name = name]

\* A variant of the assertions in which the checksum is not compared.
AssertOutcomeNoChecksum(b, T, name, acc, s) ==
    LET f == FieldNamed(T, name)
    IN  CASE f.kind = "calc" -> IF acc[name] = f.value THEN "ok" ELSE "fail"
          [] f.kind = "length" ->
                LET lc == LengthCode(b, acc["sample_count"][1])
                IN  IF lc.panic THEN "panic"
                    ELSE IF acc[name] = << lc.value >> THEN "ok" ELSE "fail"
          [] f.kind = "checksum" -> "ok"

\* A variant of the assertions in which no field but the command is held
\* against its constant.
AssertOutcomeNoConstant(b, T, name, acc, s) ==
    LET f == FieldNamed(T, name)
    IN  CASE f.kind = "calc" ->
                IF name # "command" \/ acc[name] = f.value THEN "ok" ELSE "fail"
          [] f.kind = "length" ->
                LET lc == LengthCode(b, acc["sample_count"][1])
                IN  IF lc.panic THEN "panic"
                    ELSE IF acc[name] = << lc.value >> THEN "ok" ELSE "fail"
          [] f.kind = "checksum" ->
                IF acc[name] = << s.checksum >> THEN "ok" ELSE "fail"

\* One br(assert(..)): "ok", "fail" or, when evaluating it overflows, "panic".
AssertOutcome(b, T, name, acc, s) ==
    LET f == FieldNamed(T, name)
    IN  CASE f.kind = "calc" -> IF acc[name] = f.value THEN "ok" ELSE "fail"
          [] f.kind = "length" ->
                LET lc == LengthCode(b, acc["sample_count"][1])
                IN  IF lc.panic THEN "panic"
                    ELSE IF acc[name] = << lc.value >> THEN "ok" ELSE "fail"
          [] f.kind = "checksum" ->
                IF acc[name] = << s.checksum >> THEN "ok" ELSE "fail"

RECURSIVE CheckAssertsLastFirst(_, _, _, _, _)
\* A variant that evaluates the assertions from the last declared to the
\* first, so that the checksum is compared before the command.
CheckAssertsLastFirst(b, T, k, acc, s) ==
    IF k > Len(T.asserts)
    THEN [status |-> "Ok", what |-> "", msg |-> [n \in PubNames(T) |-> acc[n]]]
    ELSE LET name == T.asserts[Len(T.asserts) + 1 - k]
             f == FieldNamed(T, name)
             o == CASE f.kind = "calc" -> IF acc[name] = f.value THEN "ok" ELSE "fail"
                    [] f.kind = "length" ->
                          LET lc == LengthCode(b, acc["sample_count"][1])
                          IN  IF lc.panic THEN "panic"
                              ELSE IF acc[name] = << lc.value >> THEN "ok" ELSE "fail"
                    [] f.kind = "checksum" ->
                          IF acc[name] = << s.checksum >> THEN "ok" ELSE "fail"
         IN  CASE o = "ok" -> CheckAssertsLastFirst(b, T, k + 1, acc, s)
               [] o = "fail" -> [status |-> "AssertFail", what |-> name, msg |-> <<>>]
               [] o = "panic" -> [status |-> "Panic", what |-> name, msg |-> <<>>]

RECURSIVE CheckAssertsChecksumFirst(_, _, _, _, _)
\* A variant that compares the checksum before anything else and then
\* takes the assertions in declared order.
CheckAssertsChecksumFirst(b, T, k, acc, s) ==
    IF k = 1 /\ acc["checksum"] # << s.checksum >>
    THEN [status |-> "AssertFail", what |-> "checksum", msg |-> <<>>]
    ELSE IF k > Len(T.asserts)
    THEN [status |-> "Ok", what |-> "", msg |-> [n \in PubNames(T) |-> acc[n]]]
    ELSE LET o == AssertOutcome(b, T, T.asserts[k], acc, s)
         IN  CASE o = "ok" -> CheckAssertsChecksumFirst(b, T, k + 1, acc, s)
               [] o = "fail" -> [status |-> "AssertFail", what |-> T.asserts[k], msg |-> <<>>]
               [] o = "panic" -> [status |-> "Panic", what |-> T.asserts[k], msg |-> <<>>]

RECURSIVE CheckAsserts(_, _, _, _, _)
\* The struct's assertions in declared order, after all fields were read;
\* the first that fails is the error.
CheckAsserts(b, T, k, acc, s) ==
    IF k > Len(T.asserts)
    THEN [status |-> "Ok", what |-> "", msg |-> [n \in PubNames(T) |-> acc[n]]]
    ELSE LET o == AssertOutcome(b, T, T.asserts[k], acc, s)
         IN  CASE o = "ok" -> CheckAsserts(b, T, k + 1, acc, s)
               [] o = "fail" -> [status |-> "AssertFail", what |-> T.asserts[k], msg |-> <<>>]
               [] o = "panic" -> [status |-> "Panic", what |-> T.asserts[k], msg |-> <<>>]

\* A variant that skips the first byte without comparing it with the
\* magic.
DecodeAnyMagic(b, T, buf) ==
    IF buf = <<>> THEN [status |-> "Io", what |-> "magic", msg |-> <<>>]
    ELSE LET r == ReadFields(T, buf, 1, 2, ("magic" :> <<Magic>>), NewChecksum)
         IN  IF r.status = "Io" THEN [status |-> "Io", what |-> "", msg |-> <<>>]
             ELSE CheckAsserts(b, T, 1, r.acc, r.s)

\* read_message_from_buf::<T>: the magic is read from the cursor itself,
\* the fields through MessageChecksum::new(cursor).
Decode(b, T, buf) ==
    IF buf = <<>> THEN [status |-> "Io", what |-> "magic", msg |-> <<>>]
    ELSE IF buf[1] # Magic THEN [status |-> "BadMagic", what |-> "magic", msg |-> <<>>]
    ELSE LET r == ReadFields(T, buf, 1, 2, ("magic" :> <<Magic>>), NewChecksum)
         IN  IF r.status = "Io" THEN [status |-> "Io", what |-> "", msg |-> <<>>]
             ELSE CheckAsserts(b, T, 1, r.acc, r.s)

----------------------------------------------------------------------------
(* Inputs of the codec harness *)

MaxPattern == 2         \* field values are drawn from patterns 0..MaxPattern
MaxSamples == 2         \* sample vectors of 0..MaxSamples elements
MaxDelta == 2           \* a corrupted byte is moved by 1..MaxDelta
MaxRead == 2            \* one read call takes 0..MaxRead bytes

\* The least sample_count whose length code 14+2*sample_count leaves u8.
OverflowSamples == (256 - 14) \div 2

SampleCounts == (0..MaxSamples) \cup {OverflowSamples}

\* The w-byte value of pattern k: k, 2k, 3k, .. modulo 256.
Pattern(k, w) == [i \in 1..w |-> (k * i) % 256]

\* The message of a struct without public fields.
NoFields == [n \in {} |-> <<>>]

\* A message of struct T: fields at odd places take pattern ka, at even
\* places kb; samples holds n words and sample_count says n.
GenMessage(T, ka, kb, n) ==
    [name \in PubNames(T) |->
        LET i == CHOOSE j \in 1..Len(T.fields) : T.fields[j].name = name
            f == T.fields[i]
        IN  IF f.kind = "samples" THEN [j \in 1..n |-> Pattern(kb + j, 2)]
            ELSE IF name = "sample_count" THEN <<n>>
            ELSE Pattern(IF i % 2 = 1 THEN ka ELSE kb, f.width)]

Messages ==
    { [type |-> T.name, fields |-> GenMessage(T, ka, kb, n)] :
        T \in Catalog \ {SamplesResponse}, ka \in 0..MaxPattern,
        kb \in 0..MaxPattern, n \in {0} }
    \cup
    { [type |-> "SamplesResponse", fields |-> GenMessage(SamplesResponse, ka, kb, n)] :
        ka \in 0..MaxPattern, kb \in 0..MaxPattern, n \in SampleCounts }

\* Samples responses whose sample_count says one number while samples
\* holds n words, n another (both fields are public, and nothing ties them together
\* when the struct is built).
MismatchedSamples ==
    { m \in { [type |-> "SamplesResponse",
               fields |-> [name \in PubNames(SamplesResponse) |->
                              IF name = "sample_count" THEN <<said>>
                              ELSE GenMessage(SamplesResponse, ka, kb, n)[name]]] :
                ka \in 0..MaxPattern, kb \in 0..MaxPattern,
                n \in 0..MaxSamples, said \in 0..MaxSamples } :
        m.fields["sample_count"][1] # Len(m.fields["samples"]) }

\* The known-good messages and their wire bytes of the tests
\* (messages.rs 442-650).
TestVectors ==
    {
      \* test_boot_response
      [type |-> "BootResponse",
       fields |-> [data |-> <<1, 0, 0, 135, 3, 0, 48, 0, 51, 131, 105, 154>>,
               device_id |-> <<11, 47, 0, 0, 0, 88, 79, 128>>, data2 |-> <<10, 28>>],
       data |-> <<2, 64, 132, 22, 1, 0, 0, 135, 3, 0, 48, 0,
                 51, 131, 105, 154, 11, 47, 0, 0, 0, 88, 79, 128,
                 10, 28, 129>>],
      \* test_boot_confirm_response
      [type |-> "BootConfirmResponse",
       fields |-> NoFields,
       data |-> <<2, 64, 128, 1, 16, 209>>],
      \* test_broadcast_response
      [type |-> "BroadcastResponse",
       fields |-> [network_id |-> <<1, 2>>, device_id |-> <<1, 2, 3, 4, 5, 6, 7, 8>>,
               data |-> <<1>>],
       data |-> <<2, 160, 19, 11, 1, 2, 1, 2, 3, 4, 5, 6,
                 7, 8, 1, 178>>],
      \* test_lock_response
      [type |-> "LockResponse",
       fields |-> NoFields,
       data |-> <<2, 160, 249, 1, 0, 88>>],
      \* test_update_time_ack_response
      [type |-> "UpdateTimeAckResponse",
       fields |-> NoFields,
       data |-> <<2, 64, 34, 1, 0, 99>>],
      \* test_update_time_response
      [type |-> "UpdateTimeResponse",
       fields |-> [network_id |-> <<1, 2>>],
       data |-> <<2, 64, 162, 3, 1, 2, 0, 226>>],
      \* test_handshake_response
      [type |-> "HandshakeResponse",
       fields |-> NoFields,
       data |-> <<2, 64, 3, 1, 0, 66>>],
      \* test_ack_response
      [type |-> "AckResponse",
       fields |-> NoFields,
       data |-> <<2, 64, 36, 1, 0, 101>>],
      \* test_samples_response
      [type |-> "SamplesResponse",
       fields |-> [network_id |-> <<1, 2>>, channel_id |-> <<1, 2>>, data |-> <<1, 2>>,
               time |-> <<4, 3, 2, 1>>, sample_count |-> <<2>>,
               stored_sample_count |-> <<2, 0, 0>>,
               samples |-> << <<0, 1>>, <<0, 2>> >>],
       data |-> <<2, 64, 164, 18, 1, 2, 1, 2, 1, 2, 1, 2,
                 3, 4, 2, 2, 0, 0, 1, 0, 2, 0, 242>>],
      \* test_schedule_response
      [type |-> "ScheduleResponse",
       fields |-> NoFields,
       data |-> <<2, 64, 35, 1, 0, 98>>],
      \* test_boot_request
      [type |-> "BootRequest",
       fields |-> NoFields,
       data |-> <<2, 64, 4, 0, 68>>],
      \* test_boot_confirm_request
      [type |-> "BootConfirmRequest",
       fields |-> NoFields,
       data |-> <<2, 64, 0, 0, 64>>],
      \* test_unlock_request
      [type |-> "UnlockRequest",
       fields |-> NoFields,
       data |-> <<2, 162, 54, 4, 252, 255, 144, 1, 2>>],
      \* test_lock_request
      [type |-> "LockRequest",
       fields |-> NoFields,
       data |-> <<2, 162, 54, 4, 252, 255, 0, 1, 146>>],
      \* test_update_time_request
      [type |-> "UpdateTimeRequest",
       fields |-> [network_id |-> <<0, 1>>, time |-> <<0, 0, 0, 0>>],
       data |-> <<2, 64, 34, 6, 0, 1, 0, 0, 0, 0, 101>>],
      \* test_handshake_request
      [type |-> "HandshakeRequest",
       fields |-> [network_id |-> <<0, 1>>],
       data |-> <<2, 64, 3, 4, 0, 1, 5, 0, 67>>],
      \* test_samples_request
      [type |-> "SamplesRequest",
       fields |-> [network_id |-> <<0, 2>>, channel_id |-> <<0, 1>>],
       data |-> <<2, 64, 36, 6, 0, 2, 0, 1, 10, 0, 107>>],
      \* test_schedule_request
      [type |-> "ScheduleRequest",
       fields |-> [network_id |-> <<0, 2>>, channel_id |-> <<1>>,
               schedule |-> [i \in 1..56 |-> 0]],
       data |-> <<2, 64, 35, 59, 0, 2, 1, 0, 0, 0, 0, 0,
                 0, 0, 0, 0, 0, 0, 0, 0, 0, 0, 0, 0,
                 0, 0, 0, 0, 0, 0, 0, 0, 0, 0, 0, 0,
                 0, 0, 0, 0, 0, 0, 0, 0, 0, 0, 0, 0,
                 0, 0, 0, 0, 0, 0, 0, 0, 0, 0, 0, 0,
                 0, 0, 0, 91>>] }

----------------------------------------------------------------------------
(* The session at rest (the codec harness leaves it there) *)

NoResult ==
    [status |-> "none", error |-> "", tag |-> "", device |-> <<>>,
     network |-> <<>>, samples |-> <<>>]
NoRx == [expected_bytes |-> 0, bytes |-> <<>>, rx_bytes |-> 0, ret |-> "idle"]
NoLocals ==
    [until |-> 0, header_buf |-> <<>>, device_id |-> <<>>,
     network_id |-> <<>>, clock |-> "unread", since_epoch |-> <<>>,
     timestamp |-> <<>>]
NoOp == [name |-> "none", network_id |-> <<>>, channel_id |-> <<>>, state |-> "",
         again |-> FALSE, after_error |-> FALSE]

SessionAtRest ==
    /\ pc = "idle"
    /\ op = NoOp
    /\ wire = <<>>
    /\ rxQueue = <<>>
    /\ owed = 0
    /\ unsolicited = 0
    /\ bcastSent = FALSE
    /\ log = <<>>
    /\ rx = NoRx
    /\ locals = NoLocals
    /\ now = 0
    /\ result = NoResult
    /\ transport = "open"
    /\ closeRet = <<>>
    /\ dongle = "held"

----------------------------------------------------------------------------
(* The codec harness: the steps of the tests of messages.rs 383-440 on a   *)
(* message or on literal wire bytes.                                       *)

NoEnc == [status |-> "none", bytes |-> <<>>]
NoDec == [status |-> "none", what |-> "", msg |-> <<>>]

\* MessageChecksum::new(cursor), nothing read yet
NoStream == [s |-> NewChecksum, n |-> 0, calls |-> 0]

CodecInit ==
    /\ build \in {"debug", "release"}
    /\ \/ /\ cmsg \in Messages
          /\ cstep = "message"
          /\ cframe = <<>>
       \/ /\ cmsg \in MismatchedSamples
          /\ cstep = "mismatched"
          /\ cframe = <<>>
       \/ /\ \E v \in TestVectors :
                /\ cmsg = [type |-> v.type, fields |-> v.fields]
                /\ cframe = v.data
          /\ cstep = "bytes"
    /\ cenc = NoEnc
    /\ cdec = NoDec
    /\ cstream = NoStream
    /\ SessionAtRest

\* create_message_buf(&message)
CreateMessageBuf ==
    /\ cstep \in {"message", "mismatched"}
    /\ cenc' = Encode(build, StructOf(cmsg.type), cmsg.fields)
    /\ cframe' = cenc'.bytes
    /\ cstep' = IF cenc'.status # "Ok" THEN "panicked"
                ELSE IF cstep = "message" THEN "encoded" ELSE "encoded_mismatched"
    /\ UNCHANGED <<build, cmsg, cdec, cstream>>
    /\ UNCHANGED sessionVars

\* read_message_from_buf::<T>(bytes), on encoded or on literal bytes
ReadMessageFromBuf ==
    /\ cstep \in {"encoded", "bytes"}
    /\ cdec' = Decode(build, StructOf(cmsg.type), cframe)
    /\ cstep' = IF cstep = "encoded" THEN "round_trip" ELSE "read"
    /\ UNCHANGED <<build, cmsg, cframe, cenc, cstream>>
    /\ UNCHANGED sessionVars

\* The last byte of data moved up by d, wrapping.
PoisonChecksum(data, d) ==
    [data EXCEPT ![Len(data)] = (data[Len(data)] + d) % 256]

\* test_bad_data_checksum_failure on a frame that decoded: the last byte
\* is moved (the test moves it by 1) and the frame is read again.
BadDataChecksum ==
    /\ cstep \in {"round_trip", "read"}
    /\ cdec.status = "Ok"
    /\ \E d \in 1..MaxDelta :
          /\ cframe' = PoisonChecksum(cframe, d)
          /\ cdec' = Decode(build, StructOf(cmsg.type), cframe')
    /\ cstep' = "bad_checksum"
    /\ UNCHANGED <<build, cmsg, cenc, cstream>>
    /\ UNCHANGED sessionVars

\* The two command bytes moved up by d1 and d2, wrapping; the last byte is
\* then either XORed with the two new command bytes, as the test does, or
\* recomputed as the XOR of all bytes between the magic and itself.
PoisonCommand(data, d1, d2, how) ==
    LET c1 == (data[2] + d1) % 256
        c2 == (data[3] + d2) % 256
        moved == [data EXCEPT ![2] = c1, ![3] = c2]
        last == IF how = "test" THEN Xor(Xor(data[Len(data)], c1), c2)
                ELSE XorRange(moved, 2, Len(data) - 1)
    IN  [moved EXCEPT ![Len(data)] = last]

\* test_bad_command_header_failure on a frame that decoded.
BadCommandHeader ==
    /\ cstep \in {"round_trip", "read"}
    /\ cdec.status = "Ok"
    /\ \E d1 \in 1..MaxDelta, d2 \in 1..MaxDelta, how \in {"test", "exact"} :
          /\ cframe' = PoisonCommand(cframe, d1, d2, how)
          /\ cdec' = Decode(build, StructOf(cmsg.type), cframe')
          /\ cstep' = IF how = "test" THEN "bad_command" ELSE "bad_command_only"
    /\ UNCHANGED <<build, cmsg, cenc, cstream>>
    /\ UNCHANGED sessionVars

\* Byte i of data moved up by d, wrapping, and the last byte recomputed as
\* the XOR of all bytes between the magic and itself.
PoisonByte(data, i, d) ==
    LET moved == [data EXCEPT ![i] = (data[i] + d) % 256]
    IN  [moved EXCEPT ![Len(data)] = XorRange(moved, 2, Len(data) - 1)]

\* read_message_from_buf on a frame that decoded, with its payload-length
\* byte (the fourth) moved and nothing else wrong.
BadPayloadLength ==
    /\ cstep \in {"round_trip", "read"}
    /\ cdec.status = "Ok"
    /\ \E d \in 1..MaxDelta :
          /\ cframe' = PoisonByte(cframe, 4, d)
          /\ cdec' = Decode(build, StructOf(cmsg.type), cframe')
    /\ cstep' = "bad_length"
    /\ UNCHANGED <<build, cmsg, cenc, cstream>>
    /\ UNCHANGED sessionVars

RECURSIVE FieldOffset(_, _, _)
\* The place in a frame of T of the first byte of the field called name,
\* counting the fields before it from field i on (no field before a
\* constant one varies in size).
FieldOffset(T, name, i) ==
    IF T.fields[i].name = name THEN 2
    ELSE T.fields[i].width + FieldOffset(T, name, i + 1)

\* The struct has a field that is written as a constant and asserted on
\* reading, other than command and payload_length.
HasConstantField(T) == \E k \in 1..Len(T.asserts) : T.asserts[k] = "data"

\* read_message_from_buf on a frame that decoded, with one byte of its
\* constant field moved and nothing else wrong.
BadConstantField ==
    /\ cstep \in {"round_trip", "read"}
    /\ cdec.status = "Ok"
    /\ HasConstantField(StructOf(cmsg.type))
    /\ LET T == StructOf(cmsg.type)
           at == FieldOffset(T, "data", 1)
       IN  \E j \in 0..(FieldNamed(T, "data").width - 1), d \in 1..MaxDelta :
              /\ cframe' = PoisonByte(cframe, at + j, d)
              /\ cdec' = Decode(build, T, cframe')
    /\ cstep' = "bad_constant"
    /\ UNCHANGED <<build, cmsg, cenc, cstream>>
    /\ UNCHANGED sessionVars

\* One call of Read::read on a MessageChecksum that wraps a cursor over
\* the frame, placed after the magic byte: the cursor hands out the next n
\* bytes (none at the end), and each goes through the loop of lines 58-61.
StreamRead ==
    /\ cstep \in {"bytes", "encoded", "stream"}
    /\ \E n \in 0..Min(MaxRead, Len(cframe) - 1 - cstream.n) :
          cstream' = [s |-> ChecksumRead(cstream.s,
                                         SubSeq(cframe, cstream.n + 2, cstream.n + 1 + n)),
                      n |-> cstream.n + n,
                      calls |-> Min(cstream.calls + 1, 2)]
    /\ cstep' = "stream"
    /\ UNCHANGED <<build, cmsg, cframe, cenc, cdec>>
    /\ UNCHANGED sessionVars

\* The checks of a frame, in the order the structs declare them.
Checks == << "command", "payload_length", "data", "checksum" >>

\* The sets of two checks or more.
SeveralChecks == { V \in SUBSET {"command", "payload_length", "data", "checksum"} :
                     Cardinality(V) >= 2 }

\* A frame of T with every check of V made wrong: the first command byte,
\* the payload-length byte and the first byte of the constant field moved
\* up by d, and the last byte either the XOR of the bytes before it or,
\* when the checksum is to be wrong too, that XOR moved up by d.
PoisonSeveral(T, data, V, d) ==
    LET at == IF "data" \in V THEN FieldOffset(T, "data", 1) ELSE 0
        moved == [i \in 1..Len(data) |->
                    IF \/ i = 2 /\ "command" \in V
                       \/ i = 4 /\ "payload_length" \in V
                       \/ i = at
                    THEN (data[i] + d) % 256
                    ELSE data[i]]
        sum == XorRange(moved, 2, Len(data) - 1)
    IN  [i \in 1..Len(data) |->
            IF i < Len(data) THEN moved[i]
            ELSE IF "checksum" \in V THEN (sum + d) % 256 ELSE sum]

\* read_message_from_buf on a frame that decoded, with two or more of its
\* checks made wrong at once.
BadSeveral ==
    /\ cstep \in {"round_trip", "read"}
    /\ cdec.status = "Ok"
    /\ \E V \in SeveralChecks, d \in 1..MaxDelta :
          /\ "data" \in V => HasConstantField(StructOf(cmsg.type))
          /\ cframe' = PoisonSeveral(StructOf(cmsg.type), cframe, V, d)
          /\ cdec' = Decode(build, StructOf(cmsg.type), cframe')
    /\ cstep' = "bad_several"
    /\ UNCHANGED <<build, cmsg, cenc, cstream>>
    /\ UNCHANGED sessionVars

\* read_message_from_buf on a frame cut short: a frame with a wrong
\* command, or with several checks wrong, less its last bytes.
Truncated ==
    /\ cstep \in {"bad_command", "bad_command_only", "bad_several"}
    /\ \E k \in 1..MaxDelta :
          /\ k < Len(cframe)
          /\ cframe' = SubSeq(cframe, 1, Len(cframe) - k)
          /\ cdec' = Decode(build, StructOf(cmsg.type), cframe')
    /\ cstep' = "truncated"
    /\ UNCHANGED <<build, cmsg, cenc, cstream>>
    /\ UNCHANGED sessionVars

\* Bytes other than the magic 0x02.
OtherFirstBytes == {0, 1, 255} \cup { (Magic + d) % 256 : d \in 1..MaxDelta }

\* read_message_from_buf on a buffer whose first byte is not the magic: a
\* frame that decoded, or one already refused for one of its checks, with
\* its first byte replaced.
BadMagic ==
    /\ cstep \in {"round_trip", "read", "bad_checksum", "bad_command", "bad_length",
                  "bad_constant"}
    /\ \E first \in OtherFirstBytes :
          /\ cframe' = <<first>> \o Tail(cframe)
          /\ cdec' = Decode(build, StructOf(cmsg.type), cframe')
    /\ cstep' = "bad_magic"
    /\ UNCHANGED <<build, cmsg, cenc, cstream>>
    /\ UNCHANGED sessionVars

CodecNext ==
    \/ CreateMessageBuf
    \/ ReadMessageFromBuf
    \/ BadDataChecksum
    \/ BadCommandHeader
    \/ BadPayloadLength
    \/ BadConstantField
    \/ BadMagic
    \/ BadSeveral
    \/ Truncated
    \/ StreamRead

CodecSpec == CodecInit /\ [][CodecNext]_vars

----------------------------------------------------------------------------
(* Properties of the codec, checked under CodecSpec *)

\* C1: round trip.  Whenever a message of the catalog was encoded and the
\* bytes were decoded as the same type, decoding succeeded and gave a
\* message equal to the one encoded.
C1_RoundTrip ==
    cstep = "round_trip" => (cdec.status = "Ok" /\ cdec.msg = cmsg.fields)

\* C2: checksum on encode.  Every encoded frame starts with 0x02 and ends
\* with the XOR of all bytes between the magic byte and the last byte,
\* both left out.
C2_ChecksumOnEncode ==
    cstep = "encoded" =>
        /\ Len(cframe) >= 5
        /\ cframe[1] = 2
        /\ cframe[Len(cframe)] = XorRange(cframe, 2, Len(cframe) - 1)

\* A Samples response with two samples has been encoded; its checksum is
\* not zero.
C2_Witness ==
    /\ cstep = "encoded"
    /\ cmsg.type = "SamplesResponse"
    /\ Len(cmsg.fields["samples"]) = 2
    /\ cframe[Len(cframe)] # 0

\* C3: checksum corruption.  A frame that decodes, with its last byte
\* moved up (by 1, as by any other step tried), fails to decode as the same
\* type, and the failure is the checksum assertion and no other.
C3_ChecksumCorruption ==
    cstep = "bad_checksum" => (cdec.status = "AssertFail" /\ cdec.what = "checksum")

\* A Broadcast frame with its last byte moved has been refused for its
\* checksum.
C3_Witness ==
    /\ cstep = "bad_checksum"
    /\ cmsg.type = "BroadcastResponse"
    /\ cdec.status = "AssertFail"
    /\ cdec.what = "checksum"

\* C4: command isolation.  A frame that decodes, with its two command
\* bytes moved, fails to decode with the command assertion, both when the
\* checksum was re-derived so that it matches the new bytes and when it was
\* adjusted as the test adjusts it (and so no longer matches).
C4_CommandIsolation ==
    cstep \in {"bad_command", "bad_command_only"} =>
        (cdec.status = "AssertFail" /\ cdec.what = "command")

\* A frame whose command bytes alone are wrong (its last byte is the XOR
\* of the bytes before it) has been refused for its command.
C4_Witness ==
    /\ cstep = "bad_command_only"
    /\ cframe[Len(cframe)] = XorRange(cframe, 2, Len(cframe) - 1)
    /\ cdec.status = "AssertFail"
    /\ cdec.what = "command"

\* C12: the four checks.  A frame that decodes, changed so that exactly
\* one of its command, its payload-length byte, its constant field and its
\* checksum is wrong, fails to decode with the assertion of that check:
\* command, payload_length, data and checksum, four different errors.
C12_FourChecks ==
    /\ cstep = "bad_command_only" => (cdec.status = "AssertFail" /\ cdec.what = "command")
    /\ cstep = "bad_length" => (cdec.status = "AssertFail" /\ cdec.what = "payload_length")
    /\ cstep = "bad_constant" => (cdec.status = "AssertFail" /\ cdec.what = "data")
    /\ cstep = "bad_checksum" => (cdec.status = "AssertFail" /\ cdec.what = "checksum")

\* An Unlock request with the third byte of its constant 0xfcff9001 moved
\* (and a matching checksum) has been refused for that field.
C12_Witness ==
    /\ cstep = "bad_constant"
    /\ cmsg.type = "UnlockRequest"
    /\ cframe[7] # 144
    /\ SubSeq(cframe, 1, 6) = <<2, 162, 54, 4, 252, 255>>
    /\ cframe[Len(cframe)] = XorRange(cframe, 2, Len(cframe) - 1)
    /\ cdec.status = "AssertFail"
    /\ cdec.what = "data"

\* C18: the lag of the read path.  After k >= 1 bytes were read through a
\* MessageChecksum, in read calls of whatever sizes, its checksum is the
\* XOR of the first k-1 of them; the k-th byte is not in it.
C18_ReadLag ==
    (cstep = "stream" /\ cstream.n >= 1) =>
        cstream.s.checksum = XorRange(cframe, 2, cstream.n)

\* Five bytes or more went through in two read calls or more, the last of
\* them not zero, and the checksum is neither zero nor the XOR of all the
\* bytes read.
C18_Witness ==
    /\ cstep = "stream"
    /\ cstream.n >= 5
    /\ cstream.calls >= 2
    /\ cframe[cstream.n + 1] # 0
    /\ cstream.s.checksum # 0
    /\ cstream.s.checksum # XorRange(cframe, 2, cstream.n + 1)

\* C19: sample_count and samples.  Every Samples response that decodes
\* has as many samples as its sample_count says; every encoded Samples
\* response carries as many sample words as its sample_count byte says;
\* and no message whose sample_count differs from the number of its
\* samples is encoded into a frame.
C19_SampleCount ==
    /\ (cmsg.type = "SamplesResponse" /\ cdec.status = "Ok") =>
            Len(cdec.msg["samples"]) = cdec.msg["sample_count"][1]
    /\ (cmsg.type = "SamplesResponse" /\ cstep \in {"encoded", "encoded_mismatched"}) =>
            Len(cframe) = 19 + 2 * cframe[15]
    /\ cstep # "encoded_mismatched"

\* C20: the Samples length code.  Every encoded Samples response has the
\* length code 14 + 2*sample_count, the sum taken on the integers, and
\* every Samples response that decodes has it: for a sample_count of 121
\* or more, where the sum is above 255, there is no such frame.
C20_LengthCode ==
    /\ (cmsg.type = "SamplesResponse" /\ cstep = "encoded") =>
            cframe[4] = 14 + 2 * cmsg.fields["sample_count"][1]
    /\ (cmsg.type = "SamplesResponse" /\ cdec.status = "Ok") =>
            cframe[4] = 14 + 2 * cdec.msg["sample_count"][1]

\* The byte order the specification gives a field: little-endian for the
\* 32-bit time, big-endian for every other field.
StatedEndian(f) == IF f.name = "time" THEN "little" ELSE "big"

\* C14: wire byte order.  In every encoded frame the bytes of each public
\* field of more than one byte are the field's value in big-endian order,
\* and in little-endian order for the 32-bit time; every frame that decodes
\* gives each such field the value its bytes hold in that same order; and
\* the literal Boot response and Broadcast decode to the values stated.
C14_ByteOrder ==
    LET T == StructOf(cmsg.type)
        wide == { i \in 1..Len(T.fields) : T.fields[i].kind = "pub" /\ T.fields[i].width > 1 }
        wire_of(f) == SubSeq(cframe, FieldOffset(T, f.name, 1),
                             FieldOffset(T, f.name, 1) + f.width - 1)
    IN  /\ cstep = "encoded" =>
               \A i \in wide :
                  wire_of(T.fields[i]) = ToWire(cmsg.fields[T.fields[i].name], StatedEndian(T.fields[i]))
        /\ (cstep \in {"round_trip", "read"} /\ cdec.status = "Ok") =>
               \A i \in wide :
                  cdec.msg[T.fields[i].name] = FromWire(wire_of(T.fields[i]), StatedEndian(T.fields[i]))
        /\ (cstep = "read" /\ cmsg.type = "BootResponse") =>
               /\ cdec.status = "Ok"
               /\ cdec.msg["device_id"] = <<11, 47, 0, 0, 0, 88, 79, 128>>
               /\ cdec.msg["data2"] = <<10, 28>>
        /\ (cstep = "read" /\ cmsg.type = "BroadcastResponse") =>
               /\ cdec.status = "Ok"
               /\ cdec.msg["network_id"] = <<1, 2>>
               /\ cdec.msg["device_id"] = <<1, 2, 3, 4, 5, 6, 7, 8>>
               /\ cdec.msg["data"] = <<1>>

\* C21: the size of an encoded frame.  Encoding is a function of the
\* message, and every frame it gives is 5 + L bytes long, L being the
\* length code at the fourth byte: reading 4 bytes and then L + 1 more
\* takes exactly the frame.
C21_FrameSize ==
    cstep \in {"encoded", "encoded_mismatched"} =>
        /\ cenc = Encode(build, StructOf(cmsg.type), cmsg.fields)
        /\ cframe = cenc.bytes
        /\ Len(cframe) = 5 + cframe[4]
        /\ 4 + (cframe[4] + 1) = Len(cframe)

\* C27: the magic.  A buffer whose first byte is not 0x02 is refused by
\* the decoder of every message type, whatever its other bytes are (those
\* of a valid frame or of a frame with a wrong command, length, constant or
\* checksum), and it is refused for the magic: the error is not the
\* failure of any of the four checks.
C27_BadMagic ==
    cstep = "bad_magic" =>
        /\ cframe[1] # 2
        /\ cdec.status = "BadMagic"
        /\ \A t \in TypeNames :
              LET d == Decode(build, StructOf(t), cframe)
              IN  /\ d.status = "BadMagic"
                  /\ d.status \notin {"Ok", "AssertFail"}
                  /\ d.what \notin {"command", "payload_length", "data", "checksum"}

\* A Boot response valid in all but its first byte, 0x03, has been
\* refused.
C27_Witness ==
    /\ cstep = "bad_magic"
    /\ cmsg.type = "BootResponse"
    /\ cframe[1] = 3
    /\ SubSeq(cframe, 2, 4) = <<64, 132, 22>>
    /\ cframe[Len(cframe)] = XorRange(cframe, 2, Len(cframe) - 1)
    /\ cdec.status = "BadMagic"

\* The check c of a frame f read as a T is violated: the command bytes are
\* not those of T, the fourth byte is not the length code of T (for a
\* Samples response 14 plus twice the count at byte 15, on u8), the bytes
\* of the constant field are not the constant, the last byte is not the XOR
\* of the bytes between the magic and itself.
Violated(T, f, c) ==
    CASE c = "command" -> SubSeq(f, 2, 3) # FieldNamed(T, "command").value
      [] c = "payload_length" ->
            IF FieldNamed(T, "payload_length").kind = "length"
            THEN f[4] # (14 + 2 * f[15]) % 256
            ELSE << f[4] >> # FieldNamed(T, "payload_length").value
      [] c = "data" ->
            /\ HasConstantField(T)
            /\ LET at == FieldOffset(T, "data", 1)
               IN  SubSeq(f, at, at + FieldNamed(T, "data").width - 1) # FieldNamed(T, "data").value
      [] c = "checksum" -> f[Len(f)] # XorRange(f, 2, Len(f) - 1)

\* The first check in the fixed order that f violates (0 for none).
FirstViolated(T, f) ==
    IF \E k \in 1..4 : Violated(T, f, Checks[k])
    THEN CHOOSE k \in 1..4 :
            /\ Violated(T, f, Checks[k])
            /\ \A j \in 1..(k - 1) : ~Violated(T, f, Checks[j])
    ELSE 0

\* C29: precedence of the checks.  A frame of full length that violates
\* two or more of the checks is refused with the first of them in the
\* order command, payload length, constant field, checksum (so a frame with
\* a wrong command and a wrong checksum is refused for its command); and
\* no check is made before all fields were read: a frame cut short is
\* refused for its length in bytes, whatever its command.
C29_CheckPrecedence ==
    LET T == StructOf(cmsg.type)
    IN  /\ cstep \in {"bad_several", "bad_command"} =>
              /\ Cardinality({ k \in 1..4 : Violated(T, cframe, Checks[k]) }) >= 2
              /\ cdec.status = "AssertFail"
              /\ cdec.what = Checks[FirstViolated(T, cframe)]
        /\ cstep = "bad_command" =>
              (Violated(T, cframe, "checksum") /\ cdec.what = "command")
        /\ cstep = "truncated" => cdec.status = "Io"

\* A Lock response with a wrong payload length, a wrong constant and a
\* wrong checksum, and the right command, has been refused for its payload
\* length.
C29_Witness ==
    /\ cstep = "bad_several"
    /\ cmsg.type = "LockResponse"
    /\ ~Violated(LockResponse, cframe, "command")
    /\ Violated(LockResponse, cframe, "payload_length")
    /\ Violated(LockResponse, cframe, "data")
    /\ Violated(LockResponse, cframe, "checksum")
    /\ cdec.status = "AssertFail"
    /\ cdec.what = "payload_length"

\* A frame with a wrong command, cut short, has been refused for want of
\* bytes.
C29_CutShort ==
    /\ cstep = "truncated"
    /\ Violated(StructOf(cmsg.type), cframe \o <<0>>, "command")
    /\ cdec.status = "Io"

----------------------------------------------------------------------------
(* The transport: the FTDI adapter and the device behind it *)

MaxUnsolicited == 2     \* the device sends at most MaxUnsolicited frames unasked
MaxChunk == 3           \* bytes arrive MaxChunk at a time, or all at once
TickSeconds == 30       \* the clock is observed every TickSeconds seconds

\* The wire bytes of the test of messages.rs for a response type.
VectorData(type) == (CHOOSE v \in TestVectors : v.type = type).data

\* The first four bytes of a frame whose length code is 0xff.
LongFrameHeader == <<Magic, 64, 164, 255>>

\* What the device may send in reply to a request: the responses of the
\* catalog as the tests give them, a Broadcast with a damaged checksum, and
\* the start of a frame with length code 0xff.
DeviceFrames ==
    { VectorData(t) : t \in { "BootResponse", "BootConfirmResponse",
                              "LockResponse", "HandshakeResponse", "AckResponse",
                              "UpdateTimeAckResponse", "UpdateTimeResponse",
                              "BroadcastResponse", "SamplesResponse",
                              "ScheduleResponse" } }
    \cup { PoisonChecksum(VectorData("BroadcastResponse"), 1), LongFrameHeader }

\* The Broadcast of a second device, with other identifiers.
OtherBroadcast == Encode("release", BroadcastResponse, GenMessage(BroadcastResponse, 1, 2, 0)).bytes

\* What the device may send unasked: the Broadcast of one device or of
\* another, a damaged Broadcast, a frame of another command starting with
\* 0xa0 or with 0x40, and the start of a frame with length code 0xff.
UnsolicitedFrames ==
    { VectorData("BroadcastResponse"), OtherBroadcast,
      PoisonChecksum(VectorData("BroadcastResponse"), 1),
      VectorData("LockResponse"), VectorData("UpdateTimeResponse"),
      LongFrameHeader }

\* The number of frames the device answers a request with: the requests
\* of update_time and request_samples are answered by an ack and a response.
RepliesTo(frame) ==
    IF SubSeq(frame, 2, 3) \in { <<64, 34>>, <<64, 36>> } THEN 2 ELSE 1

Running == pc \notin {"start", "idle", "done"}

IsBroadcast(f) == Len(f) >= 3 /\ SubSeq(f, 2, 3) = <<160, 19>>

\* commission is waiting for a device to announce itself: between the
\* unlock and the Broadcast it accepts.
InCommissionWait ==
    \/ pc \in {"loop", "header", "payload"}
    \/ pc \in {"rx_status", "rx_read"} /\ rx.ret \in {"header", "payload"}

\* The device puts a frame it owes on the wire, once the frame before it
\* has been taken from the queue.
DeviceReply ==
    /\ Running
    /\ wire = <<>>
    /\ rxQueue = <<>>
    /\ owed > 0
    /\ \E f \in DeviceFrames :
          /\ wire' = f
          /\ bcastSent' = (bcastSent \/ IsBroadcast(f))
    /\ owed' = owed - 1
    /\ UNCHANGED <<build, transport, closeRet, dongle, pc, op, rxQueue, unsolicited, log, rx, locals, now, result>>
    /\ UNCHANGED codecVars

\* The device puts a frame on the wire unasked, while the network is
\* unlocked.
DeviceUnsolicited ==
    /\ InCommissionWait
    /\ wire = <<>>
    /\ rxQueue = <<>>
    /\ unsolicited < MaxUnsolicited
    /\ \E f \in UnsolicitedFrames :
          /\ wire' = f
          /\ bcastSent' = (bcastSent \/ IsBroadcast(f))
    /\ unsolicited' = unsolicited + 1
    /\ UNCHANGED <<build, transport, closeRet, dongle, pc, op, rxQueue, owed, log, rx, locals, now, result>>
    /\ UNCHANGED codecVars

\* Bytes in flight reach the driver's receive queue.
Arrive ==
    /\ Running
    /\ wire # <<>>
    /\ \E k \in {Min(MaxChunk, Len(wire)), Len(wire)} :
          /\ rxQueue' = rxQueue \o SubSeq(wire, 1, k)
          /\ wire' = SubSeq(wire, k + 1, Len(wire))
    /\ UNCHANGED <<build, transport, closeRet, dongle, pc, op, owed, unsolicited, bcastSent, log, rx, locals, now, result>>
    /\ UNCHANGED codecVars

----------------------------------------------------------------------------
(* Results and the call log *)

TxEvent(frame) == [ev |-> "tx", frame |-> frame, n |-> 0, type |-> "", ok |-> TRUE]
RxEvent(n) == [ev |-> "rx", frame |-> <<>>, n |-> n, type |-> "", ok |-> TRUE]
DecEvent(type, frame, ok) == [ev |-> "dec", frame |-> frame, n |-> 0, type |-> type, ok |-> ok]

\* Err(DongleError::..), by From<binrw::Error> and From<FtStatus>
Failure(error) == [NoResult EXCEPT !.status = "Err", !.error = error]
Panicked == [NoResult EXCEPT !.status = "Panic"]

\* A variant in which an error leaves open without the Dongle being dropped.
FinishNoUnwind(res) ==
    /\ pc' = "done"
    /\ result' = res

\* The operation returns.  An error leaving open (lines 72-73) first drops
\* the Dongle that open made.
Finish(res) ==
    /\ pc' = IF op.name = "open" /\ res.status # "Ok" THEN "unwind" ELSE "done"
    /\ result' = res

----------------------------------------------------------------------------
(* SerialConnection: serial_connection.rs 38-57 *)

\* A variant that writes the frame twice before it reads.
TransmitTwiceThenReceive(frame, n, ret) ==
    /\ transport = "open"
    /\ log' = log \o << TxEvent(frame), TxEvent(frame), RxEvent(n) >>
    /\ rx' = [expected_bytes |-> n, bytes |-> <<>>, rx_bytes |-> 0, ret |-> ret]
    /\ pc' = "rx_status"
    /\ owed' = owed + RepliesTo(frame)
    /\ UNCHANGED result

\* self.serial.transmit(&frame)?, then the first lines of
\* self.serial.receive(n)? whose bytes go to the step at ret.  The write
\* may fail with an FtStatus, and does on a handle that was closed; a frame
\* written is one the device answers.
TransmitThenReceive(frame, n, ret) ==
    \/ /\ transport = "open"
       /\ log' = log \o << TxEvent(frame), RxEvent(n) >>
       /\ rx' = [expected_bytes |-> n, bytes |-> <<>>, rx_bytes |-> 0, ret |-> ret]
       /\ pc' = "rx_status"
       /\ owed' = owed + RepliesTo(frame)
       /\ UNCHANGED result
    \/ /\ log' = Append(log, TxEvent(frame))
       /\ Finish(Failure("SerialConnectionError"))
       /\ UNCHANGED <<rx, owed>>

\* The first lines of self.serial.receive(n)?, after the events given.
BeginReceive(events, n, ret) ==
    /\ log' = log \o events \o << RxEvent(n) >>
    /\ rx' = [expected_bytes |-> n, bytes |-> <<>>, rx_bytes |-> 0, ret |-> ret]
    /\ pc' = "rx_status"
    /\ UNCHANGED result

\* receive, line 47: let rx_bytes = self.connection.queue_status()?
QueueStatus ==
    /\ pc = "rx_status"
    /\ \/ /\ rx' = [rx EXCEPT !.rx_bytes = Len(rxQueue)]
          /\ pc' = "rx_read"
          /\ UNCHANGED result
       \/ /\ Finish(Failure("SerialConnectionError"))
          /\ rx' = NoRx
    /\ UNCHANGED <<build, transport, closeRet, dongle, op, wire, rxQueue, owed, unsolicited, bcastSent, log, locals, now>>
    /\ UNCHANGED codecVars

\* A variant of the loop that reads all the bytes the queue holds.
ReceiveReadAll ==
    /\ pc = "rx_read"
    /\ IF rx.rx_bytes >= 1
       THEN LET bytes_to_read == rx.rx_bytes
                got == SubSeq(rxQueue, 1, bytes_to_read)
            IN  \/ /\ rxQueue' = SubSeq(rxQueue, bytes_to_read + 1, Len(rxQueue))
                   /\ rx' = [rx EXCEPT !.bytes = @ \o got, !.rx_bytes = 0]
                   /\ pc' = IF Len(rx.bytes) + bytes_to_read >= rx.expected_bytes
                            THEN rx.ret ELSE "rx_status"
                   /\ UNCHANGED result
                \/ /\ Finish(Failure("SerialConnectionError"))
                   /\ rx' = NoRx
                   /\ UNCHANGED rxQueue
       ELSE /\ pc' = "rx_status"
            /\ UNCHANGED <<rxQueue, rx, result>>
    /\ UNCHANGED <<build, transport, closeRet, dongle, op, wire, owed, unsolicited, bcastSent, log, locals, now>>
    /\ UNCHANGED codecVars

\* receive, lines 48-55: the rest of one turn of the loop.
ReceiveRead ==
    /\ pc = "rx_read"
    /\ IF rx.rx_bytes >= 1
       THEN LET bytes_to_read == Min(rx.rx_bytes, rx.expected_bytes - Len(rx.bytes))
                got == SubSeq(rxQueue, 1, bytes_to_read)
            IN  \/ /\ rxQueue' = SubSeq(rxQueue, bytes_to_read + 1, Len(rxQueue))
                   /\ rx' = [rx EXCEPT !.bytes = @ \o got, !.rx_bytes = 0]
                   /\ pc' = IF Len(rx.bytes) + bytes_to_read = rx.expected_bytes
                            THEN rx.ret ELSE "rx_status"
                   /\ UNCHANGED result
                \/ /\ Finish(Failure("SerialConnectionError"))
                   /\ rx' = NoRx
                   /\ UNCHANGED rxQueue
       ELSE /\ pc' = "rx_status"
            /\ UNCHANGED <<rxQueue, rx, result>>
    /\ UNCHANGED <<build, transport, closeRet, dongle, op, wire, owed, unsolicited, bcastSent, log, locals, now>>
    /\ UNCHANGED codecVars

----------------------------------------------------------------------------
(* Dongle: dongle.rs 77-256 *)

Timeout == 30           \* Duration::from_secs(30)

\* The arguments the operations are called with.
Networks == { Pattern(k, 2) : k \in 1..MaxPattern }
Sockets == { <<0>>, <<1>> }
SwitchStates == { "AlwaysOn", "AlwaysOff" }

\* What SystemTime::now().duration_since(UNIX_EPOCH) may give as as_secs(),
\* a u64: a time before and a time after 2^32 seconds.
EpochSeconds == { <<0, 0, 0, 0, 101, 64, 18, 52>>, <<0, 0, 0, 1, 0, 0, 0, 2>> }

\* A variant of the conversion that saturates: u32::MAX for a time of 2^32
\* seconds or more.
AsU32Saturating(secs) ==
    IF \A i \in 1..(Len(secs) - 4) : secs[i] = 0
    THEN SubSeq(secs, Len(secs) - 3, Len(secs))
    ELSE <<255, 255, 255, 255>>

\* time.as_secs() as u32
AsU32(secs) == SubSeq(secs, Len(secs) - 3, Len(secs))

\* create_message_buf(&request) of the session: no request overflows.
RequestBuf(T, m) == Encode(build, T, m).bytes

\* A variant that takes the length code itself as the number of bytes left.
RemainingBytesNoPlusOne(header_buf) ==
    [panic |-> FALSE, value |-> header_buf[4]]

\* (header_buf[3] + 1) as usize, the sum being taken on u8.
RemainingBytes(header_buf) ==
    [panic |-> (build = "debug" /\ header_buf[4] + 1 > 255),
     value |-> (header_buf[4] + 1) % 256]

\* The operations a caller may call on a Dongle it holds, each with the
\* place where its code starts: the pub fn of dongle.rs that take &mut self
\* (commission, select_network, request_samples, switch, unlock_network,
\* lock_network), over the arguments of the bounds.  The pub field serial
\* hands a caller the transport itself; what a caller writes to it or reads
\* from it directly is no operation of the session and is not modelled.
Operations ==
    { [op |-> [NoOp EXCEPT !.name = "commission"], pc |-> "unlock"],
      [op |-> [NoOp EXCEPT !.name = "unlock_network"], pc |-> "unlock"],
      [op |-> [NoOp EXCEPT !.name = "lock_network"], pc |-> "lock"] }
    \cup { [op |-> [NoOp EXCEPT !.name = "select_network", !.network_id = net],
            pc |-> "select_network"] : net \in Networks }
    \cup { [op |-> [NoOp EXCEPT !.name = "request_samples", !.network_id = net,
                                !.channel_id = <<0>> \o ch],
            pc |-> "samples"] : net \in Networks, ch \in Sockets }
    \cup { [op |-> [NoOp EXCEPT !.name = "switch", !.network_id = net,
                                !.channel_id = ch, !.state = st],
            pc |-> "switch"] : net \in Networks, ch \in Sockets, st \in SwitchStates }

\* The operations tried as a further call on a Dongle whose first operation
\* has returned: the single exchanges and request_samples, on the first
\* network and socket.
FurtherOperations ==
    { c \in Operations :
        /\ c.op.name \in {"lock_network", "unlock_network", "select_network", "request_samples"}
        /\ c.op.network_id \in {<<>>, Pattern(1, 2)}
        /\ c.op.channel_id \in {<<>>, <<0, 0>>} }

\* A caller opens a session (Dongle::open), or starts an operation on the
\* session it opened; log is the record of the operation running.
Call ==
    /\ \/ /\ pc = "start"
          /\ op' = [NoOp EXCEPT !.name = "open"]
          /\ pc' = "new"
       \/ /\ pc = "idle"
          /\ dongle = "held"
          /\ \E c \in Operations :
                /\ op' = c.op
                /\ pc' = c.pc
    /\ log' = <<>>
    /\ UNCHANGED <<build, transport, closeRet, dongle, wire, rxQueue, owed, unsolicited, bcastSent, rx, locals, now, result>>
    /\ UNCHANGED codecVars

\* The caller keeps the Dongle after an operation has returned, Ok or Err,
\* and calls a further operation on it: the methods take &mut self and the
\* struct holds nothing but the serial connection, so nothing stands in the
\* way.  The locals of the call that returned are gone; the line is as it
\* was left.
CallAgain ==
    /\ pc = "done"
    /\ dongle = "held"
    /\ result.status \in {"Ok", "Err"}
    /\ ~op.again
    /\ \E c \in FurtherOperations :
          /\ op' = [c.op EXCEPT !.again = TRUE, !.after_error = (result.status = "Err")]
          /\ pc' = c.pc
    /\ log' = <<>>
    /\ result' = NoResult
    /\ rx' = NoRx
    /\ locals' = NoLocals
    /\ UNCHANGED <<build, transport, closeRet, dongle, wire, rxQueue, owed, unsolicited, bcastSent, now>>
    /\ UNCHANGED codecVars

\* The clock moves on while commission waits for the next frame (the code
\* reads it at the head of the loop only).
Tick ==
    /\ \/ pc = "loop"
       \/ pc \in {"rx_status", "rx_read"} /\ rx.ret = "header"
    /\ now <= locals.until
    /\ now' = now + TickSeconds
    /\ UNCHANGED <<build, transport, closeRet, dongle, pc, op, wire, rxQueue, owed, unsolicited, bcastSent, log, rx, locals, result>>
    /\ UNCHANGED codecVars

\* read_message_from_buf::<T>(bytes)?: on Ok the step goes on with the
\* message, on an error the operation returns MessageFailure.
Decoded(T, bytes) == Decode(build, T, bytes)

\* A variant in which a frame that failed to decode is passed over and the
\* operation returns Ok.
DecodeFailedIgnored(T, frame, d) ==
    /\ log' = Append(log, DecEvent(T.name, frame, FALSE))
    /\ Finish([NoResult EXCEPT !.status = "Ok"])

\* The ? after read_message_from_buf: whatever the binrw error was, the
\* operation returns MessageFailure (a panic unwinds instead).
DecodeFailed(T, frame, d) ==
    /\ log' = Append(log, DecEvent(T.name, frame, FALSE))
    /\ Finish(IF d.status = "Panic" THEN Panicked ELSE Failure("MessageFailure"))

\* unlock_network, lines 192-197, called by commission at line 80
Unlock ==
    /\ pc = "unlock"
    /\ TransmitThenReceive(RequestBuf(UnlockRequest, NoFields), 6, "unlock_response")
    /\ UNCHANGED <<build, transport, closeRet, dongle, op, wire, rxQueue, unsolicited, bcastSent, locals, now>>
    /\ UNCHANGED codecVars

\* unlock_network, lines 198-200: Ok(response) to a caller of
\* unlock_network; in commission, lines 82-83 follow.
UnlockResponse ==
    /\ pc = "unlock_response"
    /\ LET d == Decoded(LockResponse, rx.bytes)
       IN  IF d.status = "Ok"
           THEN /\ log' = Append(log, DecEvent("LockResponse", rx.bytes, TRUE))
                /\ IF op.name = "unlock_network"
                   THEN /\ Finish([NoResult EXCEPT !.status = "Ok", !.tag = "LockResponse"])
                        /\ UNCHANGED locals
                   ELSE /\ locals' = [locals EXCEPT !.until = now + Timeout]
                        /\ pc' = "loop"
                        /\ UNCHANGED result
           ELSE /\ DecodeFailed(LockResponse, rx.bytes, d)
                /\ UNCHANGED locals
    /\ UNCHANGED <<build, transport, closeRet, dongle, op, wire, rxQueue, owed, unsolicited, bcastSent, rx, now>>
    /\ UNCHANGED codecVars

\* A variant of the loop that locks the network again when the deadline has
\* passed.
LoopRelocksOnDeadline ==
    /\ pc = "loop"
    /\ IF now > locals.until
       THEN /\ pc' = "lock"
            /\ UNCHANGED <<log, rx, result>>
       ELSE BeginReceive(<<>>, 4, "header")
    /\ UNCHANGED <<build, transport, closeRet, dongle, op, wire, rxQueue, owed, unsolicited, bcastSent, locals, now>>
    /\ UNCHANGED codecVars

\* commission, lines 85-91: the head of the loop
Loop ==
    /\ pc = "loop"
    /\ IF now > locals.until
       THEN /\ Finish([NoResult EXCEPT !.status = "Ok", !.tag = "Unknown"])
            /\ UNCHANGED <<log, rx>>
       ELSE BeginReceive(<<>>, 4, "header")
    /\ UNCHANGED <<build, transport, closeRet, dongle, op, wire, rxQueue, owed, unsolicited, bcastSent, locals, now>>
    /\ UNCHANGED codecVars

\* commission, lines 91-93, and request_samples, lines 147-149: the header
\* is in, the rest of the frame is asked for.
Header ==
    /\ pc \in {"header", "samples_header"}
    /\ LET remaining_bytes == RemainingBytes(rx.bytes)
       IN  IF remaining_bytes.panic
           THEN /\ Finish(Panicked)
                /\ UNCHANGED <<log, rx, locals>>
           ELSE /\ BeginReceive(<<>>, remaining_bytes.value,
                                IF pc = "header" THEN "payload" ELSE "samples_payload")
                /\ locals' = [locals EXCEPT !.header_buf = rx.bytes]
    /\ UNCHANGED <<build, transport, closeRet, dongle, op, wire, rxQueue, owed, unsolicited, bcastSent, now>>
    /\ UNCHANGED codecVars

\* commission, lines 94-112: the frame is put together; a frame whose
\* second byte is not 0xa0 is skipped, any other is read as a Broadcast,
\* and then the wall clock is read.
Payload ==
    /\ pc = "payload"
    /\ LET buf == locals.header_buf \o rx.bytes
           d == Decoded(BroadcastResponse, buf)
       IN  IF buf[2] # 160
           THEN /\ pc' = "loop"
                /\ locals' = [locals EXCEPT !.header_buf = <<>>]
                /\ rx' = NoRx
                /\ UNCHANGED <<log, result>>
           ELSE IF d.status = "Ok"
           THEN /\ log' = Append(log, DecEvent("BroadcastResponse", buf, TRUE))
                /\ \/ \E secs \in EpochSeconds :
                         /\ locals' = [locals EXCEPT !.device_id = d.msg["device_id"],
                                          !.network_id = d.msg["network_id"],
                                          !.clock = "ok",
                                          !.since_epoch = secs,
                                          !.timestamp = AsU32(secs)]
                         /\ pc' = "update_time"
                   \/ /\ locals' = [locals EXCEPT !.device_id = d.msg["device_id"],
                                          !.network_id = d.msg["network_id"],
                                          !.clock = "error"]
                      /\ pc' = "lock"
                /\ UNCHANGED <<rx, result>>
           ELSE /\ DecodeFailed(BroadcastResponse, buf, d)
                /\ UNCHANGED <<rx, locals>>
    /\ UNCHANGED <<build, transport, closeRet, dongle, op, wire, rxQueue, owed, unsolicited, bcastSent, now>>
    /\ UNCHANGED codecVars

\* update_time, lines 243-250
UpdateTime ==
    /\ pc = "update_time"
    /\ TransmitThenReceive(
          RequestBuf(UpdateTimeRequest,
                     [network_id |-> locals.network_id, time |-> locals.timestamp]),
          6, "update_time_ack")
    /\ UNCHANGED <<build, transport, closeRet, dongle, op, wire, rxQueue, unsolicited, bcastSent, locals, now>>
    /\ UNCHANGED codecVars

\* update_time, lines 251-253
UpdateTimeAck ==
    /\ pc = "update_time_ack"
    /\ LET d == Decoded(UpdateTimeAckResponse, rx.bytes)
       IN  IF d.status = "Ok"
           THEN BeginReceive(<< DecEvent("UpdateTimeAckResponse", rx.bytes, TRUE) >>, 8,
                             "update_time_response")
           ELSE /\ DecodeFailed(UpdateTimeAckResponse, rx.bytes, d)
                /\ UNCHANGED rx
    /\ UNCHANGED <<build, transport, closeRet, dongle, op, wire, rxQueue, owed, unsolicited, bcastSent, locals, now>>
    /\ UNCHANGED codecVars

\* A variant of update_time whose caller goes on to lock_network whether or
\* not the response decoded.
UpdateTimeDoneTolerant ==
    /\ pc = "update_time_response"
    /\ LET d == Decoded(UpdateTimeResponse, rx.bytes)
       IN  /\ log' = Append(log, DecEvent("UpdateTimeResponse", rx.bytes, d.status = "Ok"))
           /\ pc' = "lock"
           /\ UNCHANGED result
    /\ UNCHANGED <<build, transport, closeRet, dongle, op, wire, rxQueue, owed, unsolicited, bcastSent, rx, locals, now>>
    /\ UNCHANGED codecVars

\* update_time, lines 254-255
UpdateTimeDone ==
    /\ pc = "update_time_response"
    /\ LET d == Decoded(UpdateTimeResponse, rx.bytes)
       IN  IF d.status = "Ok"
           THEN /\ log' = Append(log, DecEvent("UpdateTimeResponse", rx.bytes, TRUE))
                /\ pc' = "lock"
                /\ UNCHANGED result
           ELSE DecodeFailed(UpdateTimeResponse, rx.bytes, d)
    /\ UNCHANGED <<build, transport, closeRet, dongle, op, wire, rxQueue, owed, unsolicited, bcastSent, rx, locals, now>>
    /\ UNCHANGED codecVars

\* A variant of lock_network that sends the request of unlock_network (the
\* two differ in one byte of data).
LockSendsUnlock ==
    /\ pc = "lock"
    /\ TransmitThenReceive(RequestBuf(UnlockRequest, NoFields), 6, "lock_response")
    /\ UNCHANGED <<build, transport, closeRet, dongle, op, wire, rxQueue, unsolicited, bcastSent, locals, now>>
    /\ UNCHANGED codecVars

\* lock_network, lines 205-210, called by commission at line 114
Lock ==
    /\ pc = "lock"
    /\ TransmitThenReceive(RequestBuf(LockRequest, NoFields), 6, "lock_response")
    /\ UNCHANGED <<build, transport, closeRet, dongle, op, wire, rxQueue, unsolicited, bcastSent, locals, now>>
    /\ UNCHANGED codecVars

\* lock_network, lines 211-213: Ok(response) to a caller of lock_network;
\* in commission, lines 116-120 follow.
LockDone ==
    /\ pc = "lock_response"
    /\ LET d == Decoded(LockResponse, rx.bytes)
       IN  IF d.status = "Ok"
           THEN /\ log' = Append(log, DecEvent("LockResponse", rx.bytes, TRUE))
                /\ IF op.name = "lock_network"
                   THEN Finish([NoResult EXCEPT !.status = "Ok", !.tag = "LockResponse"])
                   ELSE Finish([NoResult EXCEPT !.status = "Ok", !.tag = "Commissioned",
                                                !.device = locals.device_id,
                                                !.network = locals.network_id])
           ELSE DecodeFailed(LockResponse, rx.bytes, d)
    /\ UNCHANGED <<build, transport, closeRet, dongle, op, wire, rxQueue, owed, unsolicited, bcastSent, rx, locals, now>>
    /\ UNCHANGED codecVars

\* request_samples, lines 140-144
RequestSamples ==
    /\ pc = "samples"
    /\ TransmitThenReceive(
          RequestBuf(SamplesRequest,
                     [network_id |-> op.network_id, channel_id |-> op.channel_id]),
          6, "samples_ack")
    /\ UNCHANGED <<build, transport, closeRet, dongle, op, wire, rxQueue, unsolicited, bcastSent, locals, now>>
    /\ UNCHANGED codecVars

\* request_samples, lines 145-147
SamplesAck ==
    /\ pc = "samples_ack"
    /\ LET d == Decoded(AckResponse, rx.bytes)
       IN  IF d.status = "Ok"
           THEN BeginReceive(<< DecEvent("AckResponse", rx.bytes, TRUE) >>, 4, "samples_header")
           ELSE /\ DecodeFailed(AckResponse, rx.bytes, d)
                /\ UNCHANGED rx
    /\ UNCHANGED <<build, transport, closeRet, dongle, op, wire, rxQueue, owed, unsolicited, bcastSent, locals, now>>
    /\ UNCHANGED codecVars

\* request_samples, lines 150-157
SamplesDone ==
    /\ pc = "samples_payload"
    /\ LET buf == locals.header_buf \o rx.bytes
           d == Decoded(SamplesResponse, buf)
       IN  IF d.status = "Ok"
           THEN /\ log' = Append(log, DecEvent("SamplesResponse", buf, TRUE))
                /\ Finish([NoResult EXCEPT !.status = "Ok", !.tag = "Samples",
                                           !.samples = d.msg["samples"]])
           ELSE DecodeFailed(SamplesResponse, buf, d)
    /\ UNCHANGED <<build, transport, closeRet, dongle, op, wire, rxQueue, owed, unsolicited, bcastSent, rx, locals, now>>
    /\ UNCHANGED codecVars

\* A variant that sets the seventh byte of the schedule, not the sixth.
ScheduleOffByOne(state) ==
    IF state = "AlwaysOff"
    THEN [i \in 1..56 |-> IF i = 7 THEN 37 ELSE 127]
    ELSE [i \in 1..56 |-> IF i = 7 THEN 165 ELSE 255]

\* switch, lines 161-174: the schedule of a state.  bitmap[5] of the code
\* is the sixth byte here (tuples count from 1).
Schedule(state) ==
    IF state = "AlwaysOff"
    THEN [i \in 1..56 |-> IF i = 6 THEN 37 ELSE 127]    \* [0x7f; 56], [5] = 0x25
    ELSE [i \in 1..56 |-> IF i = 6 THEN 165 ELSE 255]   \* [0xff; 56], [5] = 0xa5

\* switch, lines 161-185
Switch ==
    /\ pc = "switch"
    /\ TransmitThenReceive(
          RequestBuf(ScheduleRequest,
                     [network_id |-> op.network_id, channel_id |-> op.channel_id,
                      schedule |-> Schedule(op.state)]),
          6, "switch_response")
    /\ UNCHANGED <<build, transport, closeRet, dongle, op, wire, rxQueue, unsolicited, bcastSent, locals, now>>
    /\ UNCHANGED codecVars

\* switch, lines 186-187
SwitchDone ==
    /\ pc = "switch_response"
    /\ LET d == Decoded(ScheduleResponse, rx.bytes)
       IN  IF d.status = "Ok"
           THEN /\ log' = Append(log, DecEvent("ScheduleResponse", rx.bytes, TRUE))
                /\ Finish([NoResult EXCEPT !.status = "Ok", !.tag = "ScheduleResponse"])
           ELSE DecodeFailed(ScheduleResponse, rx.bytes, d)
    /\ UNCHANGED <<build, transport, closeRet, dongle, op, wire, rxQueue, owed, unsolicited, bcastSent, rx, locals, now>>
    /\ UNCHANGED codecVars

\* select_network, lines 127-132
SelectNetwork ==
    /\ pc = "select_network"
    /\ TransmitThenReceive(
          RequestBuf(HandshakeRequest, [network_id |-> op.network_id]),
          6, "select_network_response")
    /\ UNCHANGED <<build, transport, closeRet, dongle, op, wire, rxQueue, unsolicited, bcastSent, locals, now>>
    /\ UNCHANGED codecVars

\* select_network, lines 133-135
SelectNetworkDone ==
    /\ pc = "select_network_response"
    /\ LET d == Decoded(HandshakeResponse, rx.bytes)
       IN  IF d.status = "Ok"
           THEN /\ log' = Append(log, DecEvent("HandshakeResponse", rx.bytes, TRUE))
                /\ Finish([NoResult EXCEPT !.status = "Ok", !.tag = "HandshakeResponse"])
           ELSE DecodeFailed(HandshakeResponse, rx.bytes, d)
    /\ UNCHANGED <<build, transport, closeRet, dongle, op, wire, rxQueue, owed, unsolicited, bcastSent, rx, locals, now>>
    /\ UNCHANGED codecVars

----------------------------------------------------------------------------
(* Opening and closing: dongle.rs 69-75, 217-239, 258-260 and               *)
(* serial_connection.rs 14-36, 97-102                                       *)

MaxCloses == 1          \* a caller calls Dongle::drop at most MaxCloses times

\* SerialConnection::close, lines 33-36: let _ = self.connection.close().
\* The library closes an open handle and returns Ok; on a handle already
\* closed it returns an FtStatus.  What it returns is thrown away.
SerialClose ==
    /\ transport' = "closed"
    /\ closeRet' = Append(closeRet, IF transport = "open" THEN "Ok" ELSE "Err")

\* open, line 70: SerialConnection::new()?, lines 14-31.  usb_open may find
\* no device (no handle was made), and each call that sets the handle up
\* may fail (the Ftdi made is dropped, which closes it).  Lines 23-26: when
\* queue_status finds bytes queued purge_rx is called and what it returns is
\* thrown away, so the queue is emptied, or, when the purge failed, left as
\* it was; an empty queue is not touched.
New ==
    /\ pc = "new"
    /\ \/ /\ transport' = "open"
          /\ dongle' = "held"
          /\ IF Len(rxQueue) # 0
             THEN rxQueue' \in {<<>>, rxQueue}
             ELSE UNCHANGED rxQueue
          /\ pc' = "boot"
          /\ UNCHANGED result
       \/ /\ transport' \in {"none", "closed"}
          /\ pc' = "done"
          /\ result' = Failure("SerialConnectionError")
          /\ UNCHANGED <<rxQueue, dongle>>
    /\ UNCHANGED <<build, closeRet, op, wire, owed, unsolicited, bcastSent, log, rx, locals, now>>
    /\ UNCHANGED codecVars

\* boot, lines 218-222, called by open at line 72
Boot ==
    /\ pc = "boot"
    /\ TransmitThenReceive(RequestBuf(BootRequest, NoFields), 27, "boot_response")
    /\ UNCHANGED <<build, transport, closeRet, dongle, op, wire, rxQueue, unsolicited, bcastSent, locals, now>>
    /\ UNCHANGED codecVars

\* boot, lines 223-226
BootDone ==
    /\ pc = "boot_response"
    /\ LET d == Decoded(BootResponse, rx.bytes)
       IN  IF d.status = "Ok"
           THEN /\ log' = Append(log, DecEvent("BootResponse", rx.bytes, TRUE))
                /\ pc' = "boot_confirm"
                /\ UNCHANGED result
           ELSE DecodeFailed(BootResponse, rx.bytes, d)
    /\ UNCHANGED <<build, transport, closeRet, dongle, op, wire, rxQueue, owed, unsolicited, bcastSent, rx, locals, now>>
    /\ UNCHANGED codecVars

\* boot_confirm, lines 230-234, called by open at line 73
BootConfirm ==
    /\ pc = "boot_confirm"
    /\ TransmitThenReceive(RequestBuf(BootConfirmRequest, NoFields), 6,
                           "boot_confirm_response")
    /\ UNCHANGED <<build, transport, closeRet, dongle, op, wire, rxQueue, unsolicited, bcastSent, locals, now>>
    /\ UNCHANGED codecVars

\* boot_confirm, lines 235-238, then open, line 74: Ok(dongle); the caller
\* holds an open session.
BootConfirmDone ==
    /\ pc = "boot_confirm_response"
    /\ LET d == Decoded(BootConfirmResponse, rx.bytes)
       IN  IF d.status = "Ok"
           THEN /\ log' = Append(log, DecEvent("BootConfirmResponse", rx.bytes, TRUE))
                /\ pc' = "idle"
                /\ rx' = NoRx
                /\ UNCHANGED result
           ELSE /\ DecodeFailed(BootConfirmResponse, rx.bytes, d)
                /\ UNCHANGED rx
    /\ UNCHANGED <<build, transport, closeRet, dongle, op, wire, rxQueue, owed, unsolicited, bcastSent, locals, now>>
    /\ UNCHANGED codecVars

\* open, lines 72-73: the ? returns the error and the local dongle goes out
\* of scope, so Drop for SerialConnection (lines 97-102) closes the handle.
OpenUnwind ==
    /\ pc = "unwind"
    /\ SerialClose
    /\ dongle' = "dropped"
    /\ pc' = "done"
    /\ UNCHANGED <<build, op, wire, rxQueue, owed, unsolicited, bcastSent, log, rx, locals, now, result>>
    /\ UNCHANGED codecVars

\* The caller holds a Dongle: open returned one and it was not dropped.
HasSession == dongle = "held" /\ pc \in {"idle", "done"}

\* Dongle::drop, dongle.rs 258-260: the caller closes the session itself.
DongleDrop ==
    /\ HasSession
    /\ Len(closeRet) < MaxCloses
    /\ SerialClose
    /\ UNCHANGED <<build, dongle, pc, op, wire, rxQueue, owed, unsolicited, bcastSent, log, rx, locals, now, result>>
    /\ UNCHANGED codecVars

\* A variant in which dropping the Dongle leaves the handle as it is.
SerialDropNoClose ==
    /\ HasSession
    /\ dongle' = "dropped"
    /\ UNCHANGED <<build, transport, closeRet, pc, op, wire, rxQueue, owed, unsolicited, bcastSent, log, rx, locals, now, result>>
    /\ UNCHANGED codecVars

\* Drop for SerialConnection, lines 97-102: the Dongle goes out of scope at
\* its owner, after a return or while a panic unwinds.
SerialDrop ==
    /\ HasSession
    /\ SerialClose
    /\ dongle' = "dropped"
    /\ UNCHANGED <<build, pc, op, wire, rxQueue, owed, unsolicited, bcastSent, log, rx, locals, now, result>>
    /\ UNCHANGED codecVars

----------------------------------------------------------------------------
(* The session specification *)

\* What the driver's receive queue may hold when the device is opened:
\* nothing, or bytes left over from an earlier use of the adapter.
StaleQueues == { <<>>, <<170, 187>> }

\* Before open: no handle, no Dongle.
SessionNotOpen ==
    /\ pc = "start"
    /\ op = NoOp
    /\ wire = <<>>
    /\ rxQueue \in StaleQueues
    /\ owed = 0
    /\ unsolicited = 0
    /\ bcastSent = FALSE
    /\ log = <<>>
    /\ rx = NoRx
    /\ locals = NoLocals
    /\ now = 0
    /\ result = NoResult
    /\ transport = "none"
    /\ closeRet = <<>>
    /\ dongle = "none"

CodecAtRest ==
    /\ cstep = "none"
    /\ cmsg = [type |-> "BootRequest", fields |-> NoFields]
    /\ cframe = <<>>
    /\ cenc = NoEnc
    /\ cdec = NoDec
    /\ cstream = NoStream

Init ==
    /\ build \in {"debug", "release"}
    /\ SessionNotOpen
    /\ CodecAtRest

\* The steps of the program.
Program ==
    \/ QueueStatus
    \/ ReceiveRead
    \/ Unlock
    \/ UnlockResponse
    \/ Loop
    \/ Header
    \/ Payload
    \/ UpdateTime
    \/ UpdateTimeAck
    \/ UpdateTimeDone
    \/ Lock
    \/ LockDone
    \/ RequestSamples
    \/ SamplesAck
    \/ SamplesDone
    \/ Switch
    \/ SwitchDone
    \/ SelectNetwork
    \/ SelectNetworkDone
    \/ New
    \/ Boot
    \/ BootDone
    \/ BootConfirm
    \/ BootConfirmDone
    \/ OpenUnwind

\* The steps of its surroundings.
Environment ==
    \/ Call
    \/ CallAgain
    \/ DeviceReply
    \/ DeviceUnsolicited
    \/ Arrive
    \/ Tick
    \/ DongleDrop
    \/ SerialDrop

Next == Program \/ Environment

Spec == Init /\ [][Next]_vars

\* The program runs whenever it can, the clock keeps moving and bytes in
\* flight arrive; nothing is asked of the device or of the caller.  The
\* fairness of the program is WF_vars(Program) written out, with Running
\* for ENABLED <<Program>>_vars: every position of a running operation has
\* a step, and every step changes pc or rx.
FairSpec ==
    /\ Spec
    /\ ([]<>(~Running) \/ []<><<Program>>_vars)
    /\ WF_vars(Tick)
    /\ WF_vars(Arrive)

----------------------------------------------------------------------------
(* What a run of the session shows: read off the log *)

IsTx(e) == e.ev = "tx"
IsRx(e) == e.ev = "rx"
IsDec(e) == e.ev = "dec"
NotRx(e) == e.ev # "rx"

\* The frames transmitted, in order.
TxFrames == [i \in 1..Len(SelectSeq(log, IsTx)) |-> SelectSeq(log, IsTx)[i].frame]

\* The byte counts asked of receive, in order.
RxSizes == [i \in 1..Len(SelectSeq(log, IsRx)) |-> SelectSeq(log, IsRx)[i].n]

\* The decodings, in order.
Decodings == SelectSeq(log, IsDec)

\* The transmissions ("tx") and the decodings (by type) in order.
Exchange ==
    [i \in 1..Len(SelectSeq(log, NotRx)) |->
        IF SelectSeq(log, NotRx)[i].ev = "tx" THEN "tx"
        ELSE SelectSeq(log, NotRx)[i].type]

IsPrefix(s, t) == Len(s) <= Len(t) /\ s = SubSeq(t, 1, Len(s))

\* 02 a2 36 04 fc ff 90 01 cs and 02 a2 36 04 fc ff 00 01 cs
IsUnlockFrame(f) == Len(f) = 9 /\ SubSeq(f, 1, 8) = <<2, 162, 54, 4, 252, 255, 144, 1>>
IsLockFrame(f) == Len(f) = 9 /\ SubSeq(f, 1, 8) = <<2, 162, 54, 4, 252, 255, 0, 1>>

\* 02 40 22 06 <network> <time, 4 bytes> cs
IsUpdateTimeFrame(f, network) ==
    Len(f) = 11 /\ SubSeq(f, 1, 4) = <<2, 64, 34, 6>> /\ SubSeq(f, 5, 6) = network

----------------------------------------------------------------------------
(* Properties of the session, checked under Spec and FairSpec *)

\* C5: commissioning timeout.  Once commission waits for a device, and as
\* long as the device puts no Broadcast on the wire, commission returns:
\* with Unknown, having transmitted the Unlock request and nothing else.
\* (A return with an error is set aside here, so that the run that refutes
\* the property is one in which commission does not return at all.)
C5_CommissionTimeout ==
    (op.name = "commission" /\ pc = "loop")
        ~> \/ bcastSent
           \/ pc = "done" /\ result.status # "Ok"
           \/ /\ pc = "done"
              /\ result.tag = "Unknown"
              /\ Len(TxFrames) = 1
              /\ IsUnlockFrame(TxFrames[1])

\* C6: commissioning success.  When commission has returned Commissioned,
\* it transmitted the Unlock request, then, if the clock could be read, the
\* UpdateTime request for the Broadcast's network, whose ack and 8-byte
\* confirmation were decoded, then the Lock request, whose response was
\* decoded, and nothing else; and the identifiers returned are those of
\* the Broadcast frame that was decoded.
C6_CommissionSuccess ==
    (pc = "done" /\ op.name = "commission" /\ result.tag = "Commissioned") =>
        LET frame == (CHOOSE e \in { Decodings[i] : i \in 1..Len(Decodings) } :
                         e.type = "BroadcastResponse").frame
            n == Len(RxSizes)
        IN  /\ \A i \in 1..Len(Decodings) : Decodings[i].ok
            /\ result.network = SubSeq(frame, 5, 6)
            /\ result.device = SubSeq(frame, 7, 14)
            /\ IF locals.clock = "ok"
               THEN /\ Exchange = << "tx", "LockResponse", "BroadcastResponse",
                                     "tx", "UpdateTimeAckResponse", "UpdateTimeResponse",
                                     "tx", "LockResponse" >>
                    /\ IsUnlockFrame(TxFrames[1])
                    /\ IsUpdateTimeFrame(TxFrames[2], SubSeq(frame, 5, 6))
                    /\ IsLockFrame(TxFrames[3])
                    /\ SubSeq(RxSizes, n - 2, n) = <<6, 8, 6>>
               ELSE /\ Exchange = << "tx", "LockResponse", "BroadcastResponse",
                                     "tx", "LockResponse" >>
                    /\ IsUnlockFrame(TxFrames[1])
                    /\ IsLockFrame(TxFrames[2])
                    /\ RxSizes[n] = 6

\* commission has returned the identifiers of the second device, after the
\* time was set.
C6_Witness ==
    /\ pc = "done"
    /\ op.name = "commission"
    /\ result.tag = "Commissioned"
    /\ locals.clock = "ok"
    /\ result.network = <<1, 2>>
    /\ Len(TxFrames) = 3

\* C7: while commission waits, a frame whose command is not 0xa013 is
\* dropped and the wait goes on: the step that handles such a frame leads
\* back to the head of the loop.
C7_OnlyBroadcastEndsWait ==
    [][ (pc = "payload" /\ SubSeq(locals.header_buf, 2, 3) # <<160, 19>>)
            => pc' \in {"payload", "loop"} ]_vars

\* C8: two-phase read.  After a header with length code L, in commission
\* and in request_samples, L + 1 further bytes are asked for; no header
\* stops the operation before that second read.
C8_TwoPhaseRead ==
    /\ rx.ret \in {"payload", "samples_payload"} =>
           rx.expected_bytes = locals.header_buf[4] + 1
    /\ ~(pc = "done" /\ result.status = "Panic")

\* The schedule bytes of a state, as the specification gives them.
ExpectedSchedule(state, i) ==
    IF state = "AlwaysOn" THEN (IF i = 5 THEN 165 ELSE 255)
    ELSE (IF i = 5 THEN 37 ELSE 127)

\* C9: schedule construction.  Once switch has transmitted, it has
\* transmitted one frame: 02 40 23 3b, the network, the socket, 56
\* schedule bytes (0xff with 0xa5 at offset 5 for AlwaysOn, 0x7f with 0x25
\* at offset 5 for AlwaysOff) and the checksum.
C9_ScheduleConstruction ==
    (op.name = "switch" /\ pc # "switch") =>
        /\ Len(TxFrames) = 1
        /\ LET f == TxFrames[1]
           IN  /\ Len(f) = 64
               /\ SubSeq(f, 1, 4) = <<2, 64, 35, 59>>
               /\ SubSeq(f, 5, 6) = op.network_id
               /\ <<f[7]>> = op.channel_id
               /\ \A i \in 0..55 : f[8 + i] = ExpectedSchedule(op.state, i)
               /\ f[64] = XorRange(f, 2, 63)

\* switch to AlwaysOff has been answered.
C9_Witness ==
    /\ pc = "done"
    /\ op.name = "switch"
    /\ op.state = "AlwaysOff"
    /\ result.tag = "ScheduleResponse"
    /\ TxFrames[1][13] = 37

\* C10: request_samples transmits one Samples request, reads 6 bytes and
\* decodes them as the ack, reads 4 bytes and then (for a length code L
\* below 0xff) L + 1 bytes and decodes the whole as the Samples response, in
\* that order; on success it returns the frame's samples in order, as many
\* as the frame's sample_count; when a decoding fails it returns
\* MessageFailure and no samples.
C10_RequestSamples ==
    op.name = "request_samples" =>
        /\ IsPrefix(Exchange, << "tx", "AckResponse", "SamplesResponse" >>)
        /\ IsPrefix(SubSeq(RxSizes, 1, Min(2, Len(RxSizes))), <<6, 4>>)
        /\ Len(RxSizes) <= 3
        /\ (Len(RxSizes) = 3 /\ locals.header_buf[4] < 255) =>
               RxSizes[3] = locals.header_buf[4] + 1
        /\ pc # "samples" =>
               /\ Len(TxFrames) = 1
               /\ Len(TxFrames[1]) = 11
               /\ SubSeq(TxFrames[1], 1, 4) = <<2, 64, 36, 6>>
               /\ SubSeq(TxFrames[1], 5, 6) = op.network_id
               /\ SubSeq(TxFrames[1], 7, 8) = op.channel_id
               /\ SubSeq(TxFrames[1], 9, 10) = <<10, 0>>
        /\ result.tag = "Samples" =>
               LET f == Decodings[2].frame
               IN  /\ pc = "done"
                   /\ Len(Decodings) = 2
                   /\ Decodings[1].ok /\ Decodings[2].ok
                   /\ Len(RxSizes) = 3
                   /\ Len(f) = 5 + f[4]
                   /\ Len(result.samples) = f[15]
                   /\ \A j \in 1..f[15] :
                         result.samples[j] = << f[18 + 2 * j], f[17 + 2 * j] >>
        /\ (\E i \in 1..Len(Decodings) : ~Decodings[i].ok) =>
               /\ pc = "done"
               /\ result.status = "Err"
               /\ result.error = "MessageFailure"
               /\ result.samples = <<>>

\* request_samples has returned two different samples.
C10_Witness ==
    /\ pc = "done"
    /\ op.name = "request_samples"
    /\ result.tag = "Samples"
    /\ Len(result.samples) = 2
    /\ result.samples[1] # result.samples[2]
    /\ RxSizes = <<6, 4, 19>>

\* C11: open.  open transmits the Boot request and asks for 27 bytes, and
\* only after they decoded as a Boot response transmits the BootConfirm
\* request and asks for 6 bytes; it hands out a session only after both
\* responses decoded, and whenever it fails it returns an error and the
\* handle is closed (or was never made) by the time it has returned.
C11_Open ==
    op.name = "open" =>
        /\ IsPrefix(TxFrames, << VectorData("BootRequest"), VectorData("BootConfirmRequest") >>)
        /\ IsPrefix(RxSizes, <<27, 6>>)
        /\ IsPrefix(Exchange, << "tx", "BootResponse", "tx", "BootConfirmResponse" >>)
        /\ Len(Decodings) = 2 => Decodings[1].ok
        /\ dongle = "held" /\ pc = "idle" =>
               /\ Len(Decodings) = 2
               /\ Decodings[1].ok /\ Decodings[2].ok
               /\ closeRet = <<>> => transport = "open"
               /\ result.status # "Err"
        /\ (\E i \in 1..Len(Decodings) : ~Decodings[i].ok) => pc \in {"unwind", "done"}
        /\ pc = "unwind" => result.status = "Err"
        /\ pc = "done" =>
               /\ result.status = "Err"
               /\ transport # "open"
               /\ dongle # "held"

\* open has failed at the second response, after the first one decoded,
\* and has returned with the handle closed.
C11_Witness ==
    /\ op.name = "open"
    /\ pc = "done"
    /\ Len(Decodings) = 2
    /\ Decodings[1].ok /\ ~Decodings[2].ok
    /\ result.error = "MessageFailure"
    /\ transport = "closed"
    /\ closeRet = <<"Ok">>

\* The error of the specification for a decode check, by the name of the
\* assertion that failed.
FrameErrorOf(what) ==
    CASE what = "command" -> "CommandMismatch"
      [] what = "payload_length" -> "LengthMismatch"
      [] what = "data" -> "FieldConstantMismatch"
      [] what = "checksum" -> "ChecksumMismatch"

\* The outcome of the last read_message_from_buf of the log.
LastDecode ==
    LET e == Decodings[Len(Decodings)]
    IN  Decode(build, StructOf(e.type), e.frame)

\* C13: the error of a session operation names the check.  Whenever an
\* operation has returned because a received frame failed one of the four
\* decode checks, its error is the one that names that check (by the name
\* of the specification or by the name of the assertion), and it is not
\* the error of the transport.
C13_ErrorNamesCheck ==
    (/\ pc = "done"
     /\ Len(Decodings) > 0
     /\ ~Decodings[Len(Decodings)].ok
     /\ LastDecode.status = "AssertFail") =>
        /\ result.status = "Err"
        /\ result.error \in { FrameErrorOf(LastDecode.what), LastDecode.what }
        /\ result.error # "SerialConnectionError"

\* C15: release of the transport.  Once close has been called the handle
\* is closed, however often it is called again; a Dongle that was dropped,
\* after whatever its operations returned, and an open that failed leave
\* the handle closed; and a call of close changes nothing but the handle:
\* what the operation returned stays as it was, and on a handle already
\* closed the call has no effect (the error of the underlying close is
\* recorded in closeRet and goes nowhere else).
C15_Close ==
    /\ [](/\ Len(closeRet) > 0 => transport = "closed"
          /\ dongle = "dropped" => (transport = "closed" /\ Len(closeRet) > 0)
          /\ (pc = "done" /\ op.name = "open") => transport # "open")
    /\ [][closeRet' # closeRet =>
            /\ transport' = "closed"
            /\ result' = result
            /\ <<build, op, wire, rxQueue, owed, unsolicited, bcastSent, log, rx,
                 locals, now>>' =
               <<build, op, wire, rxQueue, owed, unsolicited, bcastSent, log, rx,
                 locals, now>>]_vars

\* An operation failed, the caller closed the session itself, and the
\* Dongle was then dropped: the second close met a closed handle and its
\* error went nowhere.
C15_Witness ==
    /\ op.name = "switch"
    /\ result.status = "Err"
    /\ result.error = "MessageFailure"
    /\ dongle = "dropped"
    /\ transport = "closed"
    /\ closeRet = <<"Ok", "Err">>

\* C16: no retries, no partial data.  Within one operation no frame is
\* transmitted twice; a decoding that failed is the last thing the
\* operation did, and the operation then returns an error; an operation
\* that returned Ok decoded every frame it read, and the data it returns
\* are those of a frame that decoded; and once an operation has an error
\* to return it transmits, receives and decodes nothing more.
C16_NoRetries ==
    /\ [](/\ \A i, j \in 1..Len(TxFrames) : i # j => TxFrames[i] # TxFrames[j]
          /\ \A i \in 1..Len(log) :
                (log[i].ev = "dec" /\ ~log[i].ok) =>
                    /\ i = Len(log)
                    /\ pc \in {"unwind", "done"}
                    /\ result.status \in {"Err", "Panic"}
          /\ result.status = "Err" => pc \in {"unwind", "done"}
          /\ result.status = "Ok" =>
                /\ pc = "done"
                /\ \A i \in 1..Len(Decodings) : Decodings[i].ok
                /\ result.tag = "Samples" =>
                       (LastDecode.status = "Ok" /\ result.samples = LastDecode.msg["samples"])
                /\ result.tag = "Commissioned" =>
                       \E i \in 1..Len(Decodings) :
                          LET d == Decode(build, BroadcastResponse, Decodings[i].frame)
                          IN  /\ Decodings[i].type = "BroadcastResponse"
                              /\ d.status = "Ok"
                              /\ result.device = d.msg["device_id"]
                              /\ result.network = d.msg["network_id"])
    /\ [][(result.status \in {"Err", "Ok"} /\ op' = op) =>
             (log' = log /\ result' = result)]_vars

\* switch has transmitted its one frame, the answer failed to decode, and
\* switch has returned an error.
C16_Witness ==
    /\ op.name = "switch"
    /\ pc = "done"
    /\ Len(TxFrames) = 1
    /\ Len(Decodings) = 1
    /\ ~Decodings[1].ok
    /\ result.status = "Err"
    /\ result.error = "MessageFailure"

\* receive is running: it polls the queue and reads what has arrived.
InReceive == pc \in {"rx_status", "rx_read"}

\* C17: receive terminates.  Whenever receive(n) is running it comes to an
\* end, with its n bytes or with an error, even when the device sends
\* nothing more.
C17_ReceiveTerminates == InReceive ~> ~InReceive

\* C22: one frame, then the read.  In every operation each frame that was
\* transmitted is followed at once by a receive (or, when the write
\* failed, by the return of the error): no second frame goes out while an
\* answer is awaited.  select_network, switch and request_samples transmit
\* one frame at most; open one for each of its two exchanges; commission
\* one for each of unlock_network, update_time and lock_network.
C22_OneFrameThenRead ==
    /\ \A i \in 1..Len(log) :
          log[i].ev = "tx" =>
              \/ i < Len(log) /\ log[i + 1].ev = "rx"
              \/ /\ i = Len(log)
                 /\ pc \in {"unwind", "done"}
                 /\ result.error = "SerialConnectionError"
    /\ op.name \in {"select_network", "switch", "request_samples", "unlock_network",
                    "lock_network"} => Len(TxFrames) <= 1
    /\ op.name = "open" => Len(TxFrames) <= 2
    /\ op.name = "commission" =>
          /\ Len(TxFrames) <= 3
          /\ Len(SelectSeq(TxFrames, IsUnlockFrame)) <= 1
          /\ Len(SelectSeq(TxFrames, IsLockFrame)) <= 1
    /\ Len(SelectSeq(log, IsRx)) >= Len(TxFrames) - 1

\* commission has transmitted three frames, each followed by a receive,
\* and has returned.
C22_Witness ==
    /\ op.name = "commission"
    /\ pc = "done"
    /\ Len(TxFrames) = 3
    /\ \A i \in 1..Len(log) : log[i].ev = "tx" => (i < Len(log) /\ log[i + 1].ev = "rx")

\* C23: once an operation of a session has returned an error, no later
\* operation called on that session transmits a frame or completes an
\* exchange successfully.
C23_UnusableAfterError ==
    op.after_error =>
        /\ TxFrames = <<>>
        /\ result.status # "Ok"

\* The command of a frame, and the frames that carry a Handshake (4003),
\* UpdateTime (4022), Schedule (4023), Samples (4024) or Lock/Unlock (a236)
\* request.
CommandOf(f) == IF Len(f) >= 3 THEN <<f[2], f[3]>> ELSE <<>>
IsUpdateTimeRequest(f) == CommandOf(f) = <<64, 34>>
IsReadyRequest(f) ==
    CommandOf(f) \in {<<64, 3>>, <<64, 34>>, <<64, 35>>, <<64, 36>>, <<162, 54>>}

\* open has returned Ok(dongle): the Boot exchange, then the BootConfirm
\* exchange, each with a response that decodes.
OpenCompleted ==
    /\ op.name = "open"
    /\ pc = "idle"
    /\ dongle = "held"
    /\ TxFrames = << RequestBuf(BootRequest, NoFields),
                     RequestBuf(BootConfirmRequest, NoFields) >>
    /\ Exchange = << "tx", "BootResponse", "tx", "BootConfirmResponse" >>
    /\ Decode(build, BootResponse, Decodings[1].frame).status = "Ok"
    /\ Decode(build, BootConfirmResponse, Decodings[2].frame).status = "Ok"

\* C24: the order of the session.  Until open has completed the Boot and
\* then the BootConfirm exchange no Handshake, Schedule, Samples, Unlock,
\* Lock or UpdateTime request is transmitted, and an operation other than
\* open starts only on a session that open completed; BootConfirm is sent
\* only after the Boot response decoded; and an UpdateTime or Lock request
\* is transmitted by commission only, after the Unlock exchange of the same
\* call has completed.
C24_SessionOrder ==
    /\ [](/\ op.name \in {"none", "open"} =>
                /\ \A i \in 1..Len(TxFrames) : ~IsReadyRequest(TxFrames[i])
                /\ IsPrefix(Exchange, << "tx", "BootResponse", "tx", "BootConfirmResponse" >>)
                /\ Len(TxFrames) = 2 => Decodings[1].ok
          /\ op.name \notin {"none", "open"} => dongle # "none"
          /\ op.name \notin {"none", "open", "commission"} =>
                \A i \in 1..Len(TxFrames) :
                    /\ ~IsLockFrame(TxFrames[i])
                    /\ ~IsUpdateTimeRequest(TxFrames[i])
          /\ op.name = "commission" =>
                \A i \in 1..Len(log) :
                    (log[i].ev = "tx" /\ (IsLockFrame(log[i].frame) \/ IsUpdateTimeRequest(log[i].frame))) =>
                        \E j, k \in 1..i :
                            /\ j < k
                            /\ k < i
                            /\ log[j].ev = "tx"
                            /\ IsUnlockFrame(log[j].frame)
                            /\ log[k].ev = "dec"
                            /\ log[k].type = "LockResponse"
                            /\ log[k].ok)
    /\ [][(op' # op /\ op'.name \notin {"none", "open"}) =>
            \/ OpenCompleted
            \/ op.name \notin {"none", "open"} /\ dongle = "held"]_vars

\* The decodings of the log that failed.
FailedDecodings == { i \in 1..Len(log) : log[i].ev = "dec" /\ ~log[i].ok }

\* C25: commission after a valid Broadcast.  When the clock cannot be read
\* no UpdateTime request is sent, the Lock exchange follows at once, and
\* the call that returns Ok returns Commissioned with the identifiers of
\* the Broadcast.  When the clock is read the UpdateTime request is sent;
\* the Lock request is sent only after the ack and the response of
\* UpdateTime both decoded; and a failure of the UpdateTime exchange at any
\* step (the write, a read, either decoding) ends the call with an error,
\* no Lock request sent and Commissioned not returned.
C25_TimeSync ==
    op.name = "commission" =>
        /\ locals.clock = "unread" => (pc # "lock" /\ result.tag # "Commissioned")
        /\ locals.clock = "error" =>
              /\ \A i \in 1..Len(TxFrames) : ~IsUpdateTimeRequest(TxFrames[i])
              /\ pc \in {"lock", "rx_status", "rx_read", "lock_response", "done"}
              /\ IsPrefix(Exchange, << "tx", "LockResponse", "BroadcastResponse", "tx", "LockResponse" >>)
              /\ pc # "lock" => (Len(TxFrames) = 2 /\ IsLockFrame(TxFrames[2]))
              /\ result.status = "Ok" =>
                    /\ result.tag = "Commissioned"
                    /\ result.device = locals.device_id
                    /\ result.network = locals.network_id
                    /\ Len(Exchange) = 5
        /\ locals.clock = "ok" =>
              /\ IsPrefix(Exchange, << "tx", "LockResponse", "BroadcastResponse", "tx",
                                       "UpdateTimeAckResponse", "UpdateTimeResponse",
                                       "tx", "LockResponse" >>)
              /\ pc # "update_time" =>
                    (Len(TxFrames) >= 2 /\ IsUpdateTimeFrame(TxFrames[2], locals.network_id))
              /\ Len(TxFrames) >= 3 =>
                    /\ IsLockFrame(TxFrames[3])
                    /\ Len(Decodings) >= 4
                    /\ Decodings[3].ok
                    /\ Decodings[4].ok
              /\ (result.status = "Err" /\ Len(TxFrames) = 2) => pc = "done"
              /\ (\E i \in FailedDecodings :
                     log[i].type \in {"UpdateTimeAckResponse", "UpdateTimeResponse"}) =>
                    /\ pc = "done"
                    /\ result.status = "Err"
                    /\ result.error = "MessageFailure"
                    /\ Len(TxFrames) = 2
              /\ result.status = "Ok" =>
                    /\ result.tag = "Commissioned"
                    /\ Len(Exchange) = 8
                    /\ FailedDecodings = {}

\* The clock could not be read, and commission has returned Commissioned
\* after the Unlock and Lock exchanges alone.
C25_Witness ==
    /\ op.name = "commission"
    /\ locals.clock = "error"
    /\ pc = "done"
    /\ result.tag = "Commissioned"
    /\ Len(TxFrames) = 2
    /\ IsLockFrame(TxFrames[2])

\* The clock was read and the response of UpdateTime did not decode.
C25_TimeSyncFailed ==
    /\ op.name = "commission"
    /\ locals.clock = "ok"
    /\ pc = "done"
    /\ result.status = "Err"
    /\ \E i \in FailedDecodings : log[i].type = "UpdateTimeResponse"

\* C26: the time of the UpdateTime request.  The request commission
\* transmits carries, in little-endian order, the seconds since the epoch
\* that the host clock gave, modulo 2^32 (the 64-bit count is the quotient
\* times 2^32 plus the time sent; nothing saturates and nothing fails), and
\* it is addressed to the network of the Broadcast that was decoded.
C26_TimeTruncated ==
    (op.name = "commission" /\ locals.clock = "ok" /\ Len(TxFrames) >= 2) =>
        LET f == TxFrames[2]
            bcast == (CHOOSE e \in { Decodings[i] : i \in 1..Len(Decodings) } :
                         e.type = "BroadcastResponse").frame
            time == Reverse(SubSeq(f, 7, 10))
        IN  /\ Len(f) = 11
            /\ IsUpdateTimeRequest(f)
            /\ SubSeq(f, 5, 6) = SubSeq(bcast, 5, 6)
            /\ Len(locals.since_epoch) = 8
            /\ SubSeq(locals.since_epoch, 1, 4) \o time = locals.since_epoch
            /\ SubSeq(f, 5, 6) = locals.network_id

\* The host clock stood at 2^32 + 2 seconds, and the UpdateTime request was
\* transmitted with the time 2.
C26_Witness ==
    /\ op.name = "commission"
    /\ locals.clock = "ok"
    /\ locals.since_epoch = <<0, 0, 0, 1, 0, 0, 0, 2>>
    /\ Len(TxFrames) >= 2
    /\ SubSeq(TxFrames[2], 7, 10) = <<2, 0, 0, 0>>

\* What the log of commission shows: a Lock request sent, the Unlock
\* exchange completed, a Broadcast decoded, and the time-sync step passed
\* (skipped for want of a clock, or completed).
LockSent == \E i \in 1..Len(TxFrames) : IsLockFrame(TxFrames[i])
UnlockCompleted ==
    /\ Len(TxFrames) >= 1
    /\ IsUnlockFrame(TxFrames[1])
    /\ Len(Decodings) >= 1
    /\ Decodings[1].type = "LockResponse"
    /\ Decodings[1].ok
BroadcastDecoded ==
    \E i \in 1..Len(Decodings) : Decodings[i].type = "BroadcastResponse" /\ Decodings[i].ok
TimeSyncPassed ==
    \/ locals.clock = "error"
    \/ \E i \in 1..Len(Decodings) : Decodings[i].type = "UpdateTimeResponse" /\ Decodings[i].ok

\* C28: re-lock coverage of commission.  A Lock request is in the log only
\* when a Broadcast was decoded and the time-sync step passed, and a call
\* that has returned after both has sent it.  A call that returned Unknown
\* on the deadline, or an error after the Unlock exchange while waiting
\* (receive error), on a Broadcast that did not decode, or in the UpdateTime
\* exchange, has sent the Unlock request and no Lock request: the network
\* stays unlocked.
C28_RelockCoverage ==
    op.name = "commission" =>
        /\ LockSent => (UnlockCompleted /\ BroadcastDecoded /\ TimeSyncPassed)
        /\ (pc = "done" /\ result.status # "Panic" /\ BroadcastDecoded /\ TimeSyncPassed) => LockSent
        /\ (pc = "done" /\ result.tag = "Unknown") =>
              (UnlockCompleted /\ Len(TxFrames) = 1 /\ ~LockSent)
        /\ (pc = "done" /\ result.status = "Err" /\ UnlockCompleted /\ ~BroadcastDecoded) =>
              (Len(TxFrames) = 1 /\ ~LockSent)
        /\ (pc = "done" /\ result.status = "Err" /\ BroadcastDecoded /\ ~TimeSyncPassed) =>
              (Len(TxFrames) = 2 /\ IsUpdateTimeRequest(TxFrames[2]) /\ ~LockSent)

\* commission has returned an error for a Broadcast that did not decode,
\* after the Unlock exchange and without a Lock request.
C28_Witness ==
    /\ op.name = "commission"
    /\ pc = "done"
    /\ result.status = "Err"
    /\ UnlockCompleted
    /\ \E i \in FailedDecodings : log[i].type = "BroadcastResponse"
    /\ ~LockSent

\* commission has returned Unknown on the deadline, the network unlocked.
C28_DeadlinePath ==
    /\ op.name = "commission"
    /\ pc = "done"
    /\ result.tag = "Unknown"
    /\ UnlockCompleted
    /\ ~LockSent

\* C30: receive takes what was asked and no more.  The bytes a receive
\* call holds never number more than expected_bytes; one read moves at most
\* min(rx_bytes, expected_bytes - bytes_read) bytes from the head of the
\* queue to the end of the buffer, in order, so that what is held followed
\* by what is queued stays the same byte sequence; no other step takes a
\* byte from the queue (arrivals extend it at its end), and a new receive
\* call starts with the queue as the last one left it: consecutive calls
\* return consecutive segments of the incoming bytes.
C30_ReceiveExact ==
    /\ [](/\ Len(rx.bytes) <= rx.expected_bytes
          /\ (pc = "rx_read" /\ rx.rx_bytes >= 1) => rx.rx_bytes <= Len(rxQueue))
    /\ [][/\ (pc = "rx_read" /\ pc' \notin {"rx_read", "unwind", "done"}) =>
                /\ rx'.bytes \o rxQueue' = rx.bytes \o rxQueue
                /\ IsPrefix(rx.bytes, rx'.bytes)
                /\ Len(rx'.bytes) - Len(rx.bytes) <=
                       Min(rx.rx_bytes, rx.expected_bytes - Len(rx.bytes))
                /\ Len(rx'.bytes) <= rx.expected_bytes
                /\ pc' \notin {"rx_status", "rx_read"} => Len(rx'.bytes) = rx.expected_bytes
          /\ (pc # "new" /\ (pc # "rx_read" \/ pc' = pc)) => IsPrefix(rxQueue, rxQueue')
          /\ (pc' = "rx_status" /\ pc \notin {"rx_status", "rx_read"}) => rx'.bytes = <<>>
         ]_vars

\* A receive of 4 bytes has returned the head of a frame that had arrived
\* whole; the rest of the frame is still queued.
C30_Witness ==
    /\ pc = "header"
    /\ Len(rx.bytes) = 4
    /\ rx.expected_bytes = 4
    /\ Len(rxQueue) >= 2
    /\ rx.bytes[1] = 2

====
